---- MODULE Spec2Model ----
(***************************************************************************)
(* State-machine model of the TSOD realtime plane: the control service and *)
(* its transactional outbox (server/control), the gateway session and the  *)
(* outbox dispatcher (server/gateway) and the voice forwarder              *)
(* (server/media).                                                         *)
(***************************************************************************)
EXTENDS Integers, Sequences, FiniteSets, TLC

\* ------------------------------------------------------------------ bounds

MaxOps == 3        \* requests read from all control streams together
MaxTime == 1       \* clock ticks (one tick = one second of now())
ClaimTtl == 0      \* outbox_claim_ttl_s, scaled to ticks
BatchSize == 2     \* outbox_batch, scaled
PushQueueCap == 2  \* capacity of a connection's push queue, scaled

\* ------------------------------------------------------------- universes

Users == {"u1", "u2"}
Gateways == {"g1", "g2"}
Channels == {"c1", "c2"}          \* the UUIDs Uuid::new_v4 hands to create_channel
None == "none"
ReqIds == {1, 2}                  \* request_id values a client puts on an envelope

\* The users a forwarder may hold state for: the two clients and a third
\* member that only listens.
VoiceUsers == Users \cup {"u3"}

\* The gateway each user's client dials.
GwOf(u) == IF u = "u1" THEN "g1" ELSE "g2"

\* The claim token each dispatcher draws once at start (outbox_dispatch.rs:29).
TokenOf(g) == IF g = "g1" THEN "T1" ELSE "T2"

VARIABLES
    channels,          \* table channels: channel id -> [max_members, op]
    channel_members,   \* table channel_members: <<channel, user>> -> Member
    chat_messages,     \* table chat_messages: set of [id, channel_id, author]
    audit_log,         \* table audit_log: set of [op, actor, action]
    outbox_events,     \* table outbox_events: row id -> row
    applied,           \* history: [op, kind] of every committed state change
    acl,               \* tables channel_overrides and user_roles/role_caps
    tx,                \* per connection task: the open service transaction
    now,               \* the database clock now()
    nextOp,            \* source of fresh ids (Uuid::new_v4)
    conn,              \* per user: the connection task's position and request
    lastSent,          \* per user: the last envelope written on the control stream
    sessions,          \* per gateway: users in the session registry (datagram tx)
    dgLoop,            \* per user: the datagram read loop is spawned
    cacheChan,         \* per gateway: channel -> cached member list (or None)
    cacheUser,         \* per gateway: user -> cached [channel_id, muted] (or None)
    pushHub,           \* per gateway: PushHub.inner, user -> queue of pushes
    disp,              \* per gateway: the outbox dispatcher task
    handled,           \* history: per gateway, rows whose fanout handle_record ran
    lastPush,          \* history: the last push envelope a dispatcher built
    enqueued,          \* history: <<row, user>> pairs whose push entered a queue
    membership,        \* voice: the forwarder's MembershipCache
    registry,          \* voice: users with a datagram handle in the SessionRegistry
    send_loops,        \* voice: receiver -> its send loop's queue (or None)
    rate,              \* voice: sender -> RateState (or None)
    talkers,           \* voice: channel -> TalkerSet (or None)
    vnow,              \* voice: the forwarder's clock, in seconds
    received,          \* voice: datagrams handed to handle_incoming so far
    verdict,           \* history: what became of the last datagram
    cfg,               \* voice: the limits VoiceForwarderConfig was given
    metrics,           \* history: the VoiceMetrics calls of the last handle_incoming
    lastSender,        \* history: the sender of the last datagram (or None)
    lastDatagram,      \* history: the last datagram (or None)
    admitted,          \* history: per sender, the datagrams allow_rate let through
    slowPath           \* voice: enqueue_to_receiver calls past the fast path, and writer tasks

dispVars == <<disp, handled, lastPush, enqueued>>
voiceVars == <<membership, registry, send_loops, rate, talkers, vnow, received, verdict,
               cfg, metrics, lastSender, lastDatagram, admitted,
               slowPath>>
storeVars == <<channels, channel_members, chat_messages, audit_log,
               outbox_events, applied, acl>>

\* ---------------------------------------------------------- permissions

Caps == {"CreateChannel", "JoinChannel", "SendMessage", "MuteVoice"}

\* A decision in which a matching channel override settles the result before
\* the roles are read.
DecideOverridesFirst(tables, req) ==
    IF req.channel_id # None
       /\ <<req.channel_id, req.user_id, req.capability, "deny">> \in tables.overrides
    THEN "Deny"
    ELSE IF req.channel_id # None
            /\ <<req.channel_id, req.user_id, req.capability, "grant">> \in tables.overrides
    THEN "Allow"
    ELSE IF <<req.user_id, req.capability, "deny">> \in tables.roles
    THEN "Deny"
    ELSE IF <<req.user_id, req.capability, "grant">> \in tables.roles
    THEN "Allow"
    ELSE "Deny"

\* decide_permission as the repository implements it: override deny, role
\* deny, override grant, role grant, else Deny.  req.is_admin is not read.
decide_permission(tables, req) ==
    IF req.channel_id # None
       /\ <<req.channel_id, req.user_id, req.capability, "deny">> \in tables.overrides
    THEN "Deny"
    ELSE IF <<req.user_id, req.capability, "deny">> \in tables.roles
    THEN "Deny"
    ELSE IF req.channel_id # None
            /\ <<req.channel_id, req.user_id, req.capability, "grant">> \in tables.overrides
    THEN "Allow"
    ELSE IF <<req.user_id, req.capability, "grant">> \in tables.roles
    THEN "Allow"
    ELSE "Deny"

\* The identity AuthProvider binds to a connection.
IsAdmin(u) == u = "u1"
DisplayNameOf(u) == IF u = "u1" THEN "alice" ELSE "bob"

PermissionRequest(u, cap, ch, target) ==
    [user_id |-> u, is_admin |-> IsAdmin(u), capability |-> cap,
     channel_id |-> ch, target_user_id |-> target]

\* ControlService::require
require(tables, u, ch, target, cap) ==
    decide_permission(tables, PermissionRequest(u, cap, ch, target)) = "Allow"

\* The permission tables of the deployment: u1 holds a role granting every
\* capability, u2 a role granting all but MuteVoice.
InitAcl ==
    [overrides |-> {},
     roles |-> {<<"u1", c, "grant">> : c \in Caps}
               \cup {<<"u2", c, "grant">> : c \in Caps \ {"MuteVoice"}}]

\* ------------------------------------------------------ write sets (tx)


EmptyW ==
    [channels |-> {}, upserts |-> {}, deletes |-> {}, chat |-> {},
     audit |-> {}, outbox |-> {}, applied |-> {}]

\* The ControlRepo statements, each adding to the open transaction's writes.
create_channel(w, ch) == [w EXCEPT !.channels = @ \cup {ch}]
upsert_member(w, m) == [w EXCEPT !.upserts = @ \cup {m}]
delete_member(w, key) == [w EXCEPT !.deletes = @ \cup {key}]
insert_chat_message(w, msg) == [w EXCEPT !.chat = @ \cup {msg}]
insert_audit(w, e) == [w EXCEPT !.audit = @ \cup {e}]
insert_outbox(w, ev) == [w EXCEPT !.outbox = @ \cup {ev}]


\* ------------------------------------------------------- committed reads

Member(ch, u, dn, muted, deafened, at) ==
    [channel_id |-> ch, user_id |-> u, display_name |-> dn, muted |-> muted,
     deafened |-> deafened, joined_at |-> at]

\* Option values are sets: {} is None, {x} is Some(x).
Some(x) == {x}
Unwrap(o) == CHOOSE x \in o : TRUE

get_channel(ch) == IF ch \in DOMAIN channels THEN Some(channels[ch]) ELSE {}
get_member(ch, u) ==
    IF <<ch, u>> \in DOMAIN channel_members THEN Some(channel_members[<<ch, u>>]) ELSE {}
list_members(rows, ch) == {rows[k] : k \in {x \in DOMAIN rows : x[1] = ch}}
count_members(ch) == Cardinality({k \in DOMAIN channel_members : k[1] = ch})

\* Restriction of a function to the keys in S.
Restrict(f, S) == [k \in S |-> f[k]]

\* An upsert whose conflict clause also overwrites joined_at.
UpsertReplace(rows, m) ==
    LET k == <<m.channel_id, m.user_id>>
    IN  [x \in DOMAIN rows \cup {k} |-> IF x = k THEN m ELSE rows[x]]

\* ON CONFLICT (channel_id, user_id) DO UPDATE SET display_name, muted,
\* deafened: an existing row keeps its joined_at.
UpsertRow(rows, m) ==
    LET k == <<m.channel_id, m.user_id>>
        new == IF k \in DOMAIN rows THEN [m EXCEPT !.joined_at = rows[k].joined_at] ELSE m
    IN  [x \in DOMAIN rows \cup {k} |-> IF x = k THEN new ELSE rows[x]]

RECURSIVE UpsertAll(_, _)
UpsertAll(rows, ms) ==
    IF ms = {} THEN rows
    ELSE LET m == CHOOSE x \in ms : TRUE
         IN  UpsertAll(UpsertRow(rows, m), ms \ {m})

\* What a commit makes visible: the transaction's writes, applied to the
\* tables as they stand.
CommitMembers(rows, w) ==
    LET up == UpsertAll(rows, w.upserts)
    IN  Restrict(up, DOMAIN up \ w.deletes)

CommitChannels(tab, w) ==
    [c \in DOMAIN tab \cup {x.id : x \in w.channels} |->
        IF c \in DOMAIN tab THEN tab[c]
        ELSE LET x == CHOOSE y \in w.channels : y.id = c
             IN  [max_members |-> x.max_members, op |-> x.op]]

CommitOutbox(tab, w) ==
    [r \in DOMAIN tab \cup {e.id : e \in w.outbox} |->
        IF r \in DOMAIN tab THEN tab[r]
        ELSE CHOOSE e \in w.outbox : e.id = r]


\* ------------------------------------------------------ control service

NoMember == Member(None, None, None, FALSE, FALSE, 0)

IdleTx ==
    [pc |-> "idle", kind |-> None, id |-> 0, ch |-> None, target |-> None,
     muted |-> FALSE, m |-> NoMember, w |-> EmptyW]

\* Outbox topics each operation emits, in the order of its insert_outbox calls.
Topics(kind) ==
    CASE kind = "CreateChannelRequest" -> <<"channel.created">>
      [] kind = "JoinChannelRequest" -> <<"presence.member_joined">>
      [] kind = "LeaveChannelRequest" -> <<"presence.member_left">>
      [] kind = "ModerationActionRequest" ->
            <<"presence.voice_state_changed", "moderation.user_muted">>
      [] kind = "SendMessageRequest" -> <<"chat.message_posted">>

AuditAction(kind, muted) ==
    CASE kind = "CreateChannelRequest" -> "channel.create"
      [] kind = "JoinChannelRequest" -> "member.join"
      [] kind = "LeaveChannelRequest" -> "member.leave"
      [] kind = "ModerationActionRequest" ->
            IF muted THEN "moderation.mute" ELSE "moderation.unmute"
      [] kind = "SendMessageRequest" -> "chat.message"

\* The i-th outbox event of transaction t of connection u.  The row's
\* created_at is the database default; rows are ordered by id, and ids are
\* drawn in the order the transactions begin.
OutboxEvent(u, t, i) ==
    [id |-> <<t.id, i>>, op |-> t.id, topic |-> Topics(t.kind)[i],
     channel_id |-> t.ch, user_id |-> t.target, actor_user_id |-> u,
     muted |-> t.muted,
     claim_token |-> None, claimed_at |-> {}, published_at |-> {}]

AuditEntry(u, t) ==
    [op |-> t.id, actor_user_id |-> u, action |-> AuditAction(t.kind, t.muted)]

\* --------------------------------------------------------- envelopes

RequestKinds ==
    {"JoinChannelRequest", "LeaveChannelRequest", "CreateChannelRequest",
     "SendMessageRequest", "ModerationActionRequest"}

\* The request envelopes a client sends in the request loop, apart from Ping.
\* ch = None is a missing or malformed channel_id, target = None a missing or
\* malformed target_user_id, valid = FALSE a name or text that is empty after
\* trim or too long.
Req(kind, ch, target, act, valid) ==
    [kind |-> kind, ch |-> ch, target |-> target, act |-> act, valid |-> valid]

RequestShapes ==
    {Req(k, c, None, None, TRUE) :
        k \in {"JoinChannelRequest", "LeaveChannelRequest"}, c \in Channels \cup {None}}
    \cup {Req("CreateChannelRequest", None, None, None, v) : v \in BOOLEAN}
    \cup {Req("SendMessageRequest", c, None, None, v) : c \in Channels, v \in BOOLEAN}
    \cup {Req("SendMessageRequest", None, None, None, TRUE)}
    \cup {Req("ModerationActionRequest", c, t, a, TRUE) :
            c \in Channels, t \in Users, a \in {"mute", "unmute", "other"}}
    \cup {Req("ModerationActionRequest", None, "u1", "mute", TRUE),
          Req("ModerationActionRequest", "c1", None, "mute", TRUE)}

\* ServerToClient
Envelope(rid, payload, error) ==
    [request_id |-> rid, payload |-> payload, error |-> error]

Unsent == Envelope(0, "unsent", None)

NoReq == [rid |-> 0, kind |-> None]

IdleConn ==
    [pc |-> "start", first |-> None, second |-> None, authed |-> FALSE,
     req |-> NoReq, err |-> None, members |-> {}]

\* gateway.rs parse_channel_id and the target_user_id parse: Err when the
\* field is missing or is no UUID.
parse_channel_id(ch) == ch # None
ParseFails(r) ==
    \/ r.kind \in RequestKinds \ {"CreateChannelRequest"} /\ ~parse_channel_id(r.ch)
    \/ r.kind = "ModerationActionRequest" /\ r.target = None

\* A capacity check that refuses a join only beyond the limit.
PrecheckOverFull(u, r) ==
    CASE r.kind = "CreateChannelRequest" ->
            IF ~r.valid THEN "InvalidArgument"
            ELSE IF ~require(acl, u, None, None, "CreateChannel") THEN "PermissionDenied"
            ELSE "ok"
      [] r.kind = "JoinChannelRequest" ->
            IF ~require(acl, u, r.ch, None, "JoinChannel") THEN "PermissionDenied"
            ELSE IF get_channel(r.ch) = {} THEN "NotFound"
            ELSE IF Unwrap(get_channel(r.ch)).max_members # {}
                    /\ count_members(r.ch) >
                         Unwrap(Unwrap(get_channel(r.ch)).max_members)
                 THEN "ResourceExhausted"
            ELSE "ok"
      [] r.kind = "LeaveChannelRequest" ->
            IF ~require(acl, u, r.ch, None, "JoinChannel") THEN "PermissionDenied"
            ELSE IF get_member(r.ch, u) = {} THEN "NotFound"
            ELSE "ok"
      [] r.kind = "ModerationActionRequest" ->
            IF ~require(acl, u, r.ch, r.target, "MuteVoice") THEN "PermissionDenied"
            ELSE IF get_member(r.ch, r.target) = {} THEN "NotFound"
            ELSE "ok"
      [] r.kind = "SendMessageRequest" ->
            IF ~r.valid THEN "InvalidArgument"
            ELSE IF ~require(acl, u, r.ch, None, "SendMessage") THEN "PermissionDenied"
            ELSE IF get_member(r.ch, u) = {} THEN "NotFound"
            ELSE "ok"


\* What the service call finds before its state change: the validation, the
\* permission gate and the reads that precede the first write.
Precheck(u, r) ==
    CASE r.kind = "CreateChannelRequest" ->
            IF ~r.valid THEN "InvalidArgument"
            ELSE IF ~require(acl, u, None, None, "CreateChannel") THEN "PermissionDenied"
            ELSE "ok"
      [] r.kind = "JoinChannelRequest" ->
            IF ~require(acl, u, r.ch, None, "JoinChannel") THEN "PermissionDenied"
            ELSE IF get_channel(r.ch) = {} THEN "NotFound"
            ELSE IF Unwrap(get_channel(r.ch)).max_members # {}
                    /\ count_members(r.ch) >=
                         Unwrap(Unwrap(get_channel(r.ch)).max_members)
                 THEN "ResourceExhausted"
            ELSE "ok"
      [] r.kind = "LeaveChannelRequest" ->
            IF ~require(acl, u, r.ch, None, "JoinChannel") THEN "PermissionDenied"
            ELSE IF get_member(r.ch, u) = {} THEN "NotFound"
            ELSE "ok"
      [] r.kind = "ModerationActionRequest" ->
            IF ~require(acl, u, r.ch, r.target, "MuteVoice") THEN "PermissionDenied"
            ELSE IF get_member(r.ch, r.target) = {} THEN "NotFound"
            ELSE "ok"
      [] r.kind = "SendMessageRequest" ->
            IF ~r.valid THEN "InvalidArgument"
            ELSE IF ~require(acl, u, r.ch, None, "SendMessage") THEN "PermissionDenied"
            ELSE IF get_member(r.ch, u) = {} THEN "NotFound"
            ELSE "ok"


\* --------------------------------------------- gateway: membership cache

\* MembershipCache, one per gateway process.  cacheChan[g][ch] is {} while
\* the channel has no entry and Some(member ids) once it has one.
set_channel_state(cc, ch, ids) == [cc EXCEPT ![ch] = Some(ids)]
members_of(cc, ch) == cc[ch]
set_user(cu, uid, ch, muted) ==
    [cu EXCEPT ![uid] = Some([channel_id |-> ch, muted |-> muted])]
remove_user(cu, uid) == [cu EXCEPT ![uid] = {}]
update_mute(cu, uid, ch, muted) ==
    IF cu[uid] # {} /\ Unwrap(cu[uid]).channel_id = ch
    THEN [cu EXCEPT ![uid] = Some([channel_id |-> ch, muted |-> muted])]
    ELSE cu

RECURSIVE SetUsers(_, _, _)
SetUsers(cu, ch, ms) ==
    IF ms = {} THEN cu
    ELSE LET m == CHOOSE x \in ms : TRUE
         IN  SetUsers(set_user(cu, m.user_id, ch, m.muted), ch, ms \ {m})

\* ------------------------------------------------- gateway: request loop

connVars == <<conn, lastSent, sessions, dgLoop>>
cacheVars == <<cacheChan, cacheUser>>

Close(u, err) == [conn EXCEPT ![u].pc = "closed", ![u].err = err, ![u].req = NoReq]

\* A fresh channel id, as Uuid::new_v4 gives create_channel.
UsedChannels ==
    DOMAIN channels \cup {tx[v].ch : v \in {x \in Users : tx[x].kind = "CreateChannelRequest"}}
FreshChannel == CHOOSE c \in Channels : c \notin UsedChannels

\* Ping: answered in place with Pong; a failed write leaves the loop.
ReadPing(u, rid) ==
    /\ conn[u].pc = "ready"
    /\ \E wrote \in BOOLEAN :
        IF wrote
        THEN /\ lastSent' = [lastSent EXCEPT ![u] = Envelope(rid, "Pong", None)]
             /\ conn' = [conn EXCEPT ![u].req = [rid |-> rid, kind |-> "Ping"]]
        ELSE /\ lastSent' = lastSent
             /\ conn' = Close(u, "write")
    /\ UNCHANGED <<storeVars, tx, now, nextOp, sessions, dgLoop, cacheVars, pushHub, dispVars,
                   voiceVars>>

\* Hello, AuthRequest or an empty payload inside the request loop: the match
\* falls through to its last arm and nothing is written.  The envelope read
\* is the connection's current request.
ReadOther(u, rid, kind) ==
    /\ conn[u].pc = "ready"
    /\ kind \notin RequestKinds \cup {"Ping"}
    /\ rid \in ReqIds
    /\ conn' = [conn EXCEPT ![u].req = [rid |-> rid, kind |-> kind]]
    /\ UNCHANGED <<storeVars, tx, now, nextOp, lastSent, sessions, dgLoop, cacheVars,
                   pushHub, dispVars,
                   voiceVars>>

\* The transaction a service call opens once its checks have passed.
OpenTx(u, r) ==
    LET target == IF r.kind = "ModerationActionRequest" THEN r.target ELSE u
        ch == IF r.kind = "CreateChannelRequest" THEN FreshChannel ELSE r.ch
        m == CASE r.kind = "JoinChannelRequest" ->
                    Member(ch, u, DisplayNameOf(u), FALSE, FALSE, now)
               [] r.kind = "ModerationActionRequest" ->
                    [Unwrap(get_member(ch, target)) EXCEPT !.muted = (r.act = "mute")]
               [] OTHER -> NoMember
    IN  [pc |-> "change", kind |-> r.kind, id |-> nextOp, ch |-> ch,
         target |-> target, muted |-> (r.act = "mute"), m |-> m, w |-> EmptyW]

\* A mutating request is read and the service call begins.  An error before
\* the first write leaves handle_conn through `?`: nothing is written.
ReadRequest(u, rid, r) ==
    /\ conn[u].pc = "ready"
    /\ nextOp <= MaxOps
    /\ r.kind = "CreateChannelRequest" => Channels \ UsedChannels # {}
    /\ nextOp' = nextOp + 1
    /\ IF ParseFails(r)
       THEN /\ conn' = Close(u, "Parse")
            /\ tx' = tx
       ELSE IF r.kind = "ModerationActionRequest" /\ r.act = "other"
       THEN /\ conn' = [conn EXCEPT ![u].pc = "post",
                                    ![u].req = [rid |-> rid, kind |-> r.kind]]
            /\ tx' = tx
       ELSE IF Precheck(u, r) # "ok"
       THEN /\ conn' = Close(u, Precheck(u, r))
            /\ tx' = tx
       ELSE /\ conn' = [conn EXCEPT ![u].pc = "svc",
                                    ![u].req = [rid |-> rid, kind |-> r.kind]]
            /\ tx' = [tx EXCEPT ![u] = OpenTx(u, r)]
    /\ UNCHANGED <<storeVars, now, lastSent, sessions, dgLoop, cacheVars, pushHub, dispVars,
                   voiceVars>>


\* ------------------------------------------------ service: transactions

\* A row write waits while another open transaction holds the row's lock.
RowLocked(u, key) ==
    \E v \in Users \ {u} :
        \/ \E m \in tx[v].w.upserts : <<m.channel_id, m.user_id>> = key
        \/ key \in tx[v].w.deletes

\* The state-change statement of the operation.
SvcChange(u) ==
    LET t == tx[u] IN
    /\ t.pc = "change"
    /\ t.kind \in {"JoinChannelRequest", "LeaveChannelRequest", "ModerationActionRequest"}
          => ~RowLocked(u, <<t.ch, t.target>>)
    /\ IF t.kind = "LeaveChannelRequest" /\ get_member(t.ch, u) = {}
       THEN \* delete_member: rows_affected = 0 is NotFound("member")
            /\ tx' = [tx EXCEPT ![u] = IdleTx]
            /\ conn' = Close(u, "NotFound")
       ELSE /\ conn' = conn
            /\ tx' = [tx EXCEPT ![u].pc = "audit", ![u].w =
                 LET w == [t.w EXCEPT !.applied = @ \cup {[op |-> t.id, kind |-> t.kind]}] IN
                 CASE t.kind = "CreateChannelRequest" ->
                        create_channel(w, [id |-> t.ch, max_members |-> {}, op |-> t.id])
                   [] t.kind = "JoinChannelRequest" -> upsert_member(w, t.m)
                   [] t.kind = "ModerationActionRequest" -> upsert_member(w, t.m)
                   [] t.kind = "LeaveChannelRequest" -> delete_member(w, <<t.ch, u>>)
                   [] t.kind = "SendMessageRequest" ->
                        insert_chat_message(w,
                            [id |-> t.id, channel_id |-> t.ch, author_user_id |-> u])]
    /\ UNCHANGED <<storeVars, now, nextOp, lastSent, sessions, dgLoop, cacheVars, pushHub, dispVars,
                   voiceVars>>

SvcAudit(u) ==
    /\ tx[u].pc = "audit"
    /\ tx' = [tx EXCEPT ![u].pc = "outbox",
                        ![u].w = insert_audit(@, AuditEntry(u, tx[u]))]
    /\ UNCHANGED <<storeVars, now, nextOp, connVars, cacheVars, pushHub, dispVars,
                   voiceVars>>

\* insert_outbox run on the pool instead of the transaction: the row is
\* committed by the statement itself.
SvcOutboxPool(u) ==
    LET t == tx[u]
        i == Cardinality({r \in DOMAIN outbox_events : r[1] = t.id}) + 1
    IN  /\ t.pc = "outbox"
        /\ outbox_events' = CommitOutbox(outbox_events,
                                         insert_outbox(EmptyW, OutboxEvent(u, t, i)))
        /\ tx' = [tx EXCEPT ![u].pc = IF i = Len(Topics(t.kind)) THEN "commit" ELSE "outbox"]
        /\ UNCHANGED <<channels, channel_members, chat_messages, audit_log, applied, acl,
                       now, nextOp, connVars, cacheVars, pushHub, dispVars, voiceVars>>

SvcOutbox(u) ==
    LET t == tx[u]
        i == Cardinality(t.w.outbox) + 1
    IN  /\ t.pc = "outbox"
        /\ tx' = [tx EXCEPT ![u].pc = IF i = Len(Topics(t.kind)) THEN "commit" ELSE "outbox",
                            ![u].w = insert_outbox(@, OutboxEvent(u, t, i))]
        /\ UNCHANGED <<storeVars, now, nextOp, connVars, cacheVars, pushHub, dispVars,
                   voiceVars>>

\* tx.commit(): every write of the transaction becomes visible at once.  For
\* a join, list_members is the last read before the commit.
SvcCommit(u) ==
    LET t == tx[u]
        rows == CommitMembers(channel_members, t.w)
    IN  /\ t.pc = "commit"
        /\ channels' = CommitChannels(channels, t.w)
        /\ channel_members' = rows
        /\ chat_messages' = chat_messages \cup t.w.chat
        /\ audit_log' = audit_log \cup t.w.audit
        /\ outbox_events' = CommitOutbox(outbox_events, t.w)
        /\ applied' = applied \cup t.w.applied
        /\ tx' = [tx EXCEPT ![u].pc = "done", ![u].w = EmptyW]
        /\ conn' = [conn EXCEPT ![u].pc = "post",
                                ![u].members =
                                    IF t.kind = "JoinChannelRequest"
                                    THEN {[user_id |-> m.user_id, muted |-> m.muted] :
                                            m \in list_members(rows, t.ch)}
                                    ELSE {}]
        /\ UNCHANGED <<acl, now, nextOp, lastSent, sessions, dgLoop, cacheVars, pushHub, dispVars,
                   voiceVars>>

\* A statement or the commit fails: the call returns Err, the transaction
\* is dropped and rolled back, and `?` ends handle_conn.
SvcFail(u) ==
    /\ tx[u].pc \in {"change", "audit", "outbox", "commit"}
    /\ tx' = [tx EXCEPT ![u] = IdleTx]
    /\ conn' = Close(u, "Internal")
    /\ UNCHANGED <<storeVars, now, nextOp, lastSent, sessions, dgLoop, cacheVars, pushHub, dispVars,
                   voiceVars>>

\* ----------------------------------------- gateway: after the service call

ResponsePayload(kind) ==
    CASE kind = "JoinChannelRequest" -> "JoinChannelResponse"
      [] kind = "LeaveChannelRequest" -> "LeaveChannelResponse"
      [] kind = "CreateChannelRequest" -> "JoinChannelResponse"
      [] kind = "SendMessageRequest" -> None
      [] kind = "ModerationActionRequest" -> None

\* A response that leaves request_id at its default.
ResponseWithoutId(req) == Envelope(0, ResponsePayload(req.kind), None)

\* The response of a request, built from the request id the loop saved.
Response(req) == Envelope(req.rid, ResponsePayload(req.kind), None)

\* The cache update the handler makes after a successful call.
CacheChanAfter(g, u, t, members) ==
    CASE t.kind = "JoinChannelRequest" /\ t.pc = "done" ->
            set_channel_state(cacheChan[g], t.ch, {m.user_id : m \in members})
      [] t.kind = "LeaveChannelRequest" /\ t.pc = "done" ->
            IF members_of(cacheChan[g], t.ch) # {}
            THEN set_channel_state(cacheChan[g], t.ch,
                                   Unwrap(members_of(cacheChan[g], t.ch)) \ {u})
            ELSE cacheChan[g]
      [] OTHER -> cacheChan[g]

CacheUserAfter(g, u, t, members) ==
    CASE t.kind = "JoinChannelRequest" /\ t.pc = "done" ->
            SetUsers(cacheUser[g], t.ch, members)
      [] t.kind = "LeaveChannelRequest" /\ t.pc = "done" -> remove_user(cacheUser[g], u)
      [] t.kind = "ModerationActionRequest" /\ t.pc = "done" ->
            update_mute(cacheUser[g], t.target, t.ch, t.muted)
      [] OTHER -> cacheUser[g]

\* The handler updates the cache and writes the response.
GwRespond(u) ==
    LET g == GwOf(u) IN
    /\ conn[u].pc = "post"
    /\ cacheChan' = [cacheChan EXCEPT ![g] = CacheChanAfter(g, u, tx[u], conn[u].members)]
    /\ cacheUser' = [cacheUser EXCEPT ![g] = CacheUserAfter(g, u, tx[u], conn[u].members)]
    /\ tx' = [tx EXCEPT ![u] = IdleTx]
    /\ \E wrote \in BOOLEAN :
        IF wrote
        THEN /\ lastSent' = [lastSent EXCEPT ![u] = Response(conn[u].req)]
             /\ conn' = [conn EXCEPT ![u].pc = "ready", ![u].members = {}]
        ELSE /\ lastSent' = lastSent
             /\ conn' = [Close(u, "write") EXCEPT ![u].members = {}]
    /\ UNCHANGED <<storeVars, now, nextOp, sessions, dgLoop, pushHub, dispVars,
                   voiceVars>>

\* After a join the handler reads the channel in a second transaction; when
\* that fails `?` ends handle_conn before the cache is touched.
GwGetChannelFail(u) ==
    /\ conn[u].pc = "post"
    /\ tx[u].kind = "JoinChannelRequest"
    /\ tx' = [tx EXCEPT ![u] = IdleTx]
    /\ conn' = [Close(u, "Internal") EXCEPT ![u].members = {}]
    /\ UNCHANGED <<storeVars, now, nextOp, lastSent, sessions, dgLoop, cacheVars, pushHub, dispVars,
                   voiceVars>>


\* ---------------------------------------------------- gateway: handshake

\* Payloads a client may put on an envelope during the handshake.
PayloadKinds == {"Hello", "AuthRequest", "Ping"}

\* timeout(HANDSHAKE_TIMEOUT, conn.accept_bi()): the control stream opens
\* in time, or the timeout or a stream error ends handle_conn.
AcceptBi(u) ==
    /\ conn[u].pc = "start"
    /\ \E opened \in BOOLEAN :
        conn' = IF opened THEN [conn EXCEPT ![u].pc = "hello"]
                ELSE Close(u, "accept_bi")
    /\ UNCHANGED <<storeVars, tx, now, nextOp, lastSent, sessions, dgLoop, cacheVars,
                   pushHub, dispVars,
                   voiceVars>>

\* A do_hello that answers whatever envelope comes first.
DoHelloAnyPayload(u, rid, kind) ==
    /\ conn[u].pc = "hello"
    /\ lastSent' = [lastSent EXCEPT ![u] = Envelope(rid, "HelloAck", None)]
    /\ conn' = [conn EXCEPT ![u].pc = "auth", ![u].first = kind,
                            ![u].req = [rid |-> rid, kind |-> kind]]
    /\ UNCHANGED <<storeVars, tx, now, nextOp, sessions, dgLoop, cacheVars, pushHub,
                   dispVars, voiceVars>>

\* do_hello: the first envelope must carry Hello; HelloAck echoes its
\* request_id.
do_hello(u, rid, kind) ==
    /\ conn[u].pc = "hello"
    /\ IF kind # "Hello"
       THEN /\ conn' = [Close(u, "expected Hello") EXCEPT ![u].first = kind]
            /\ lastSent' = lastSent
       ELSE \E wrote \in BOOLEAN :
            IF wrote
            THEN /\ lastSent' = [lastSent EXCEPT ![u] = Envelope(rid, "HelloAck", None)]
                 /\ conn' = [conn EXCEPT ![u].pc = "auth", ![u].first = kind,
                                         ![u].req = [rid |-> rid, kind |-> kind]]
            ELSE /\ lastSent' = lastSent
                 /\ conn' = [Close(u, "write") EXCEPT ![u].first = kind]
    /\ UNCHANGED <<storeVars, tx, now, nextOp, sessions, dgLoop, cacheVars, pushHub,
                   dispVars,
                   voiceVars>>

\* do_auth: the second envelope must carry AuthRequest and the provider
\* must accept it; AuthResponse echoes its request_id.  Every failure
\* returns Err before anything is written.
do_auth(u, rid, kind, accepted) ==
    /\ conn[u].pc = "auth"
    /\ IF kind # "AuthRequest"
       THEN /\ conn' = [Close(u, "expected AuthRequest") EXCEPT ![u].second = kind]
            /\ lastSent' = lastSent
       ELSE IF ~accepted
       THEN /\ conn' = [Close(u, "auth failed") EXCEPT ![u].second = kind]
            /\ lastSent' = lastSent
       ELSE \E wrote \in BOOLEAN :
            IF wrote
            THEN /\ lastSent' = [lastSent EXCEPT ![u] = Envelope(rid, "AuthResponse", None)]
                 /\ conn' = [conn EXCEPT ![u].pc = "authed", ![u].second = kind,
                                         ![u].authed = TRUE,
                                         ![u].req = [rid |-> rid, kind |-> kind]]
            ELSE /\ lastSent' = lastSent
                 /\ conn' = [Close(u, "write") EXCEPT ![u].second = kind, ![u].authed = TRUE]
    /\ UNCHANGED <<storeVars, tx, now, nextOp, sessions, dgLoop, cacheVars, pushHub,
                   dispVars,
                   voiceVars>>

\* Sessions::register: the user's datagram handle enters the registry.
register(reg, u) == reg \cup {u}

\* handle_conn after do_auth: the session is registered, the datagram loop
\* is spawned and the request loop begins.
StartSession(u) ==
    /\ conn[u].pc = "authed"
    /\ sessions' = [sessions EXCEPT ![GwOf(u)] = register(@, u)]
    /\ dgLoop' = [dgLoop EXCEPT ![u] = TRUE]
    /\ conn' = [conn EXCEPT ![u].pc = "ready"]
    /\ UNCHANGED <<storeVars, tx, now, nextOp, lastSent, cacheVars, pushHub, dispVars,
                   voiceVars>>


\* -------------------------------------------------- outbox: claim and ack

\* Rows another dispatcher's open claim transaction has locked.
LockedByOthers(g) ==
    UNION {disp[h].batch : h \in {x \in Gateways \ {g} : disp[x].pc = "claimed"}}

\* A claim query that leaves out the claimed_at condition.
ClaimableUnpublished(row, t) == row.published_at = {}

\* A claim query that compares claimed_at with <= instead of <.
ClaimableAtTtl(row, t) ==
    /\ row.published_at = {}
    /\ \/ row.claimed_at = {}
       \/ Unwrap(row.claimed_at) <= t - ClaimTtl

\* WHERE published_at IS NULL AND (claimed_at IS NULL OR claimed_at < now() - ttl)
Claimable(row, t) ==
    /\ row.published_at = {}
    /\ \/ row.claimed_at = {}
       \/ Unwrap(row.claimed_at) < t - ClaimTtl

\* Row ids are pairs <<op, i>>; created_at grows with them.
Before(a, b) == a[1] < b[1] \/ (a[1] = b[1] /\ a[2] < b[2])

\* ORDER BY created_at ASC LIMIT n over the rows in S.
FirstN(S, n) == {r \in S : Cardinality({q \in S : Before(q, r)}) < n}

\* claim_outbox_batch: the claimable rows no other transaction has locked
\* (FOR UPDATE SKIP LOCKED), oldest first, at most `limit` of them.
claim_outbox_batch(tab, locked, t, limit) ==
    FirstN({r \in DOMAIN tab : Claimable(tab[r], t) /\ r \notin locked}, limit)

\* The UPDATE of the claim, visible once its transaction commits.
CommitClaim(tab, batch, token, t) ==
    [r \in DOMAIN tab |->
        IF r \in batch
        THEN [tab[r] EXCEPT !.claimed_at = Some(t), !.claim_token = token]
        ELSE tab[r]]

\* ack_outbox_published: WHERE id = $1 AND claim_token = $2 AND
\* published_at IS NULL.
AckMatches(tab, r, token) ==
    /\ r \in DOMAIN tab
    /\ tab[r].claim_token = token
    /\ tab[r].published_at = {}

\* An ack whose WHERE clause names the row id alone.
AckById(tab, r, token, t) ==
    IF r \in DOMAIN tab THEN [tab EXCEPT ![r].published_at = Some(t)] ELSE tab

ack_outbox_published(tab, r, token, t) ==
    IF AckMatches(tab, r, token)
    THEN [tab EXCEPT ![r].published_at = Some(t)]
    ELSE tab

\* ------------------------------------------------------ outbox dispatcher

IdleDisp == [pc |-> "poll", batch |-> {}, at |-> 0]

\* The claim statement runs inside the dispatcher's transaction.  A claim
\* that returns no row changes nothing and holds no lock: its commit and the
\* sleep that follows lead back to the top of the loop.
ClaimStmt(g) ==
    /\ disp[g].pc = "poll"
    /\ LET batch == claim_outbox_batch(outbox_events, LockedByOthers(g), now, BatchSize)
       IN  disp' = [disp EXCEPT ![g] =
                      IF batch = {} THEN IdleDisp
                      ELSE [pc |-> "claimed", batch |-> batch, at |-> now]]
    /\ UNCHANGED <<storeVars, tx, now, nextOp, connVars, cacheVars, pushHub, handled,
                   lastPush, enqueued,
                   voiceVars>>

\* tx.commit() of the claim.
ClaimCommit(g) ==
    /\ disp[g].pc = "claimed"
    /\ outbox_events' = CommitClaim(outbox_events, disp[g].batch, TokenOf(g), disp[g].at)
    /\ disp' = [disp EXCEPT ![g].pc = "handle"]
    /\ UNCHANGED <<channels, channel_members, chat_messages, audit_log, applied, acl, tx,
                   now, nextOp, connVars, cacheVars, pushHub, handled, lastPush, enqueued,
                   voiceVars>>

\* repo.tx(), the claim or its commit fails: `?` ends run_outbox_dispatcher.
ClaimFail(g) ==
    /\ disp[g].pc \in {"poll", "claimed"}
    /\ disp' = [disp EXCEPT ![g] = [pc |-> "dead", batch |-> {}, at |-> 0]]
    /\ UNCHANGED <<storeVars, tx, now, nextOp, connVars, cacheVars, pushHub, handled,
                   lastPush, enqueued,
                   voiceVars>>


\* server_push: a push envelope carries request_id 0 and no error.
server_push(payload) == Envelope(0, payload, None)

\* A translation that has an arm for every topic.
TranslateEveryTopic(rec) ==
    CASE rec.topic = "chat.message_posted" ->
            Some([channel_id |-> rec.channel_id, push |-> server_push("ChatEvent")])
      [] rec.topic = "moderation.user_muted" ->
            Some([channel_id |-> rec.channel_id, push |-> server_push("ModerationEvent")])
      [] OTHER ->
            Some([channel_id |-> rec.channel_id, push |-> server_push("PresenceEvent")])

\* translate_record: Some([channel_id, push]) for the five routed topics,
\* None (Err) for any other topic.
translate_record(rec) ==
    CASE rec.topic \in {"presence.member_joined", "presence.member_left",
                        "presence.voice_state_changed"} ->
            Some([channel_id |-> rec.channel_id, push |-> server_push("PresenceEvent")])
      [] rec.topic = "chat.message_posted" ->
            Some([channel_id |-> rec.channel_id, push |-> server_push("ChatEvent")])
      [] rec.topic = "moderation.user_muted" ->
            Some([channel_id |-> rec.channel_id, push |-> server_push("ModerationEvent")])
      [] OTHER -> {}

apply_cache_side_effects(cu, rec) ==
    CASE rec.topic = "presence.member_joined" ->
            set_user(cu, rec.user_id, rec.channel_id, FALSE)
      [] rec.topic = "presence.member_left" -> remove_user(cu, rec.user_id)
      [] rec.topic \in {"presence.voice_state_changed", "moderation.user_muted"} ->
            update_mute(cu, rec.user_id, rec.channel_id, rec.muted)
      [] OTHER -> cu

\* PushHub::send_to: try_send on the user's queue when one is registered;
\* the message is dropped when none is, or when the queue is full.
send_to(hub, uid, msg) ==
    IF hub[uid] = {} THEN hub
    ELSE IF Len(Unwrap(hub[uid])) >= PushQueueCap THEN hub
    ELSE [hub EXCEPT ![uid] = Some(Append(Unwrap(hub[uid]), msg))]

RECURSIVE SendAll(_, _, _)
SendAll(hub, uids, msg) ==
    IF uids = {} THEN hub
    ELSE LET uid == CHOOSE x \in uids : TRUE
         IN  SendAll(send_to(hub, uid, msg), uids \ {uid}, msg)

\* Option::unwrap_or_default on the cached member list.
unwrap_or_default(o) == IF o = {} THEN {} ELSE Unwrap(o)

\* The recipients whose queue takes the message.
Accepting(hub, uids) ==
    {uid \in uids : hub[uid] # {} /\ Len(Unwrap(hub[uid])) < PushQueueCap}

\* handle_record for one record of the claimed batch: translate, read the
\* recipients, apply the cache side effects, send, acknowledge.  An Err of
\* the translation or of the ack is logged by the caller and the loop goes
\* on with the next record.
HandleRecord(g) ==
    /\ disp[g].pc = "handle"
    /\ \E r \in disp[g].batch :
        LET rec == outbox_events[r]
            tr == translate_record(rec)
            rest == disp[g].batch \ {r}
        IN  /\ disp' = [disp EXCEPT ![g].batch = rest,
                                    ![g].pc = IF rest = {} THEN "poll" ELSE "handle",
                                    ![g].at = IF rest = {} THEN 0 ELSE @]
            /\ IF tr = {}
               THEN UNCHANGED <<outbox_events, cacheUser, pushHub, handled, lastPush,
                                enqueued>>
               ELSE LET recipients ==
                            unwrap_or_default(members_of(cacheChan[g], Unwrap(tr).channel_id))
                    IN  /\ cacheUser' = [cacheUser EXCEPT
                                            ![g] = apply_cache_side_effects(@, rec)]
                        /\ pushHub' = [pushHub EXCEPT
                                          ![g] = SendAll(@, recipients, Unwrap(tr).push)]
                        /\ handled' = [handled EXCEPT ![g] = @ \cup {r}]
                        /\ lastPush' = Unwrap(tr).push
                        /\ enqueued' = enqueued \cup
                              {<<r, uid>> : uid \in Accepting(pushHub[g], recipients)}
                        /\ \E acked \in BOOLEAN :
                            outbox_events' =
                                IF acked
                                THEN ack_outbox_published(outbox_events, r, TokenOf(g), now)
                                ELSE outbox_events
    /\ UNCHANGED <<channels, channel_members, chat_messages, audit_log, applied, acl, tx,
                   now, nextOp, connVars, cacheChan, voiceVars>>

\* One second passes on the database clock.
Tick ==
    /\ now < MaxTime
    /\ now' = now + 1
    /\ UNCHANGED <<storeVars, tx, nextOp, connVars, cacheVars, pushHub, dispVars,
                   voiceVars>>

\* ------------------------------------------------------- voice forwarder

MaxDatagrams == 3      \* datagrams handed to handle_incoming
MaxVTime == 2          \* seconds the forwarder's clock advances
QueueCap == 2          \* per_receiver_queue, scaled
PktsPerSec == 2        \* the packet refill of RateState per second, scaled
BytesPerSec == 150     \* the byte refill of RateState per second, scaled
TalkerWindow == 0      \* talker_activity_window, in whole seconds
min_datagram_bytes == 20
max_datagram_bytes == 1500
max_ts_skew_ms == 2000
DefaultMaxTalkers == 4

\* Timestamps are u32 in the program; the model wraps at 2^16.
TsWrap == 2^16

\* unix_ms() truncated to the timestamp width.
unix_ms(t) == (60000 + t * 1000) % TsWrap

\* channel_route_hash: the FNV-1a hash of the channel id, one value per id.
channel_route_hash(ch) == IF ch = "c1" THEN 1 ELSE 2

Datagram(version, flags, header_len, route, ts, len) ==
    [version |-> version, flags |-> flags, header_len |-> header_len,
     channel_route |-> route, ts_ms |-> ts, len |-> len]

\* The datagrams a client sends at time t: well-formed ones with every
\* route and size, with and without the VAD flag, and one for each way of
\* being malformed.
DatagramInputs(t) ==
    {Datagram(1, 1, 20, r, unix_ms(t), l) : r \in {1, 2}, l \in {20, 100}}
    \cup {Datagram(1, 0, 20, 1, unix_ms(t), 20),
          Datagram(2, 0, 20, 1, unix_ms(t), 20),
          Datagram(1, 4, 20, 1, unix_ms(t), 20),
          Datagram(1, 0, 24, 1, unix_ms(t), 24),
          Datagram(1, 0, 20, 1, (unix_ms(t) + TsWrap - max_ts_skew_ms - 1) % TsWrap, 20),
          Datagram(1, 0, 20, 1, (unix_ms(t) + max_ts_skew_ms + 2) % TsWrap, 20),
          Datagram(1, 0, 20, 1, (unix_ms(t) + max_ts_skew_ms + 1) % TsWrap, 20),
          Datagram(1, 0, 20, 1, (unix_ms(t) + max_ts_skew_ms) % TsWrap, 20),
          Datagram(1, 0, 20, 1, (unix_ms(t) + TsWrap - max_ts_skew_ms) % TsWrap, 20),
          Datagram(1, 0, 20, 1, unix_ms(t), 19),
          Datagram(1, 0, 20, 1, unix_ms(t), 1501)}

\* A parse that reads the header without looking at the version byte.
ParseAnyVersion(d) ==
    IF d.len < 20 THEN {}
    ELSE IF d.header_len # 20 THEN {}
    ELSE Some([channel_route |-> d.channel_route, ts_ms |-> d.ts_ms,
               vad |-> (d.flags % 2 = 1)])

\* VoicePacket::parse: Some(header) or None (Err).
parse(d) ==
    IF d.len < 20 THEN {}
    ELSE IF d.version # 1 THEN {}
    ELSE IF d.header_len # 20 THEN {}
    ELSE Some([channel_route |-> d.channel_route, ts_ms |-> d.ts_ms,
               vad |-> (d.flags % 2 = 1)])

\* VoicePacket::ts_sane, with wrapping subtraction.
ts_sane(ts_ms, t, max_skew_ms) ==
    LET diff == (unix_ms(t) + TsWrap - ts_ms) % TsWrap
    IN  diff <= max_skew_ms \/ (TsWrap - 1 - diff) <= max_skew_ms

Min(a, b) == IF a < b THEN a ELSE b
Max(a, b) == IF a > b THEN a ELSE b

\* RateState::new and RateState::refill; a second is well over the 10 ms
\* below which refill returns at once.
NewRateState(t) == [last |-> t, tokens_pkts |-> 0, tokens_bytes |-> 0]
refill(st, t) ==
    IF t - st.last < 1 THEN st
    ELSE [last |-> t,
          tokens_pkts |-> Min(st.tokens_pkts + (t - st.last) * PktsPerSec, PktsPerSec),
          tokens_bytes |-> Min(st.tokens_bytes + (t - st.last) * BytesPerSec, BytesPerSec)]

\* allow_rate: [ok, st], the verdict and the sender's state after the call.
allow_rate(r, sender, bytes, t) ==
    LET st == refill(IF r[sender] = {} THEN NewRateState(t) ELSE Unwrap(r[sender]), t)
    IN  IF st.tokens_pkts = 0 \/ st.tokens_bytes < bytes
        THEN [ok |-> FALSE, st |-> st]
        ELSE [ok |-> TRUE, st |-> [st EXCEPT !.tokens_pkts = @ - 1,
                                             !.tokens_bytes = @ - bytes]]

\* TalkerSet: last_seen maps a user to None or Some(instant), order is the
\* pruning queue.
NewTalkerSet == [last_seen |-> [u \in VoiceUsers |-> {}], order |-> << >>]

touch(set, user, t) ==
    [last_seen |-> [set.last_seen EXCEPT ![user] = Some(t)],
     order |-> Append(set.order, <<user, t>>)]

is_active(set, user, t) ==
    set.last_seen[user] # {} /\ t - Unwrap(set.last_seen[user]) <= TalkerWindow

active_count(set, t) == Cardinality({u \in VoiceUsers : is_active(set, u, t)})

RECURSIVE prune(_, _)
prune(set, t) ==
    IF set.order = << >> THEN set
    ELSE LET u == Head(set.order)[1]
             at == Head(set.order)[2]
         IN  IF t - at <= TalkerWindow THEN set
             ELSE prune([last_seen |->
                            IF set.last_seen[u] = Some(at) /\ t - at > TalkerWindow
                            THEN [set.last_seen EXCEPT ![u] = {}]
                            ELSE set.last_seen,
                         order |-> Tail(set.order)], t)

\* MembershipProvider for MembershipCache
channel_for_user(mc, user) == mc.user_channel[user]

\* A resolution that trusts the index and does not compare the route key.
ResolveWithoutRoute(mc, sender, route_key) == channel_for_user(mc, sender)

resolve_channel_for_sender(mc, sender, route_key) ==
    IF channel_for_user(mc, sender) = {} THEN {}
    ELSE IF channel_route_hash(Unwrap(channel_for_user(mc, sender))) = route_key
         THEN channel_for_user(mc, sender)
         ELSE {}

provider_list_members(mc, channel) ==
    IF mc.channel_members[channel] = {} THEN {}
    ELSE DOMAIN Unwrap(mc.channel_members[channel])

\* A mute check that lets every sender through.
NeverMuted(mc, channel, sender) == FALSE

is_muted(mc, channel, sender) ==
    IF mc.channel_members[channel] = {} THEN TRUE
    ELSE IF sender \notin DOMAIN Unwrap(mc.channel_members[channel]) THEN TRUE
    ELSE Unwrap(mc.channel_members[channel])[sender].muted

max_talkers(mc, channel) ==
    IF mc.channel_max_talkers[channel] = {} THEN DefaultMaxTalkers
    ELSE Unwrap(mc.channel_max_talkers[channel])

\* A talker gate that admits every sender.
AllowEveryTalker(tk, mc, channel, sender, t) ==
    [ok |-> TRUE,
     set |-> touch(IF tk[channel] = {} THEN NewTalkerSet ELSE Unwrap(tk[channel]), sender, t)]

\* allow_talker: [ok, set], the verdict and the channel's set after the call.
allow_talker(tk, mc, channel, sender, t) ==
    LET max == Max(max_talkers(mc, channel), 1)
        set == prune(IF tk[channel] = {} THEN NewTalkerSet ELSE Unwrap(tk[channel]), t)
    IN  IF is_active(set, sender, t) THEN [ok |-> TRUE, set |-> touch(set, sender, t)]
        ELSE IF active_count(set, t) >= max THEN [ok |-> FALSE, set |-> set]
        ELSE [ok |-> TRUE, set |-> touch(set, sender, t)]

\* MembershipCache::set_channel_state: every listed member is indexed to the
\* channel, the channel's member map is replaced and its talker limit stored.
cache_set_channel_state(mc, channel, members, max) ==
    [user_channel |-> [u \in VoiceUsers |->
                          IF u \in DOMAIN members THEN Some(channel) ELSE mc.user_channel[u]],
     channel_members |-> [mc.channel_members EXCEPT ![channel] = Some(members)],
     channel_max_talkers |-> [mc.channel_max_talkers EXCEPT ![channel] = Some(max)]]

\* MembershipCache::remove_member: the user's index entry goes, and the
\* user's entry in the channel's member map when the channel has one.
remove_member(mc, channel, user) ==
    [mc EXCEPT !.user_channel[user] = {},
               !.channel_members[channel] =
                   IF @ = {} THEN {}
                   ELSE Some(Restrict(Unwrap(@), DOMAIN Unwrap(@) \ {user}))]

\* VoiceForwarderConfig: the limits the forwarder is constructed with.  The
\* default configuration, and the one GatewayState::new builds, on the
\* scale of the refill rates.
DefaultConfig ==
    [sender_pps_limit |-> PktsPerSec, sender_bps_limit |-> (BytesPerSec * 1024) \div 1000]
GatewayStateConfig ==
    [sender_pps_limit |-> PktsPerSec, sender_bps_limit |-> (BytesPerSec * 200) \div 512]
Configs == {DefaultConfig, GatewayStateConfig}

\* VoiceMetrics: the counters, as the increments one handle_incoming makes.
\* forwarded counts the inc_forwarded calls, fanout is the argument of the
\* last one.
NoMetrics ==
    [rx_packets |-> 0, rx_bytes |-> 0, drop_invalid |-> 0, drop_rate_limited |-> 0,
     drop_not_member |-> 0, drop_muted |-> 0, drop_talker_limit |-> 0,
     drop_send_queue_full |-> 0, forwarded |-> 0, fanout |-> 0]
inc(m, counter, n) == [m EXCEPT ![counter] = @ + n]
inc_forwarded(m, fanout) == [m EXCEPT !.forwarded = @ + 1, !.fanout = fanout]

\* The datagrams allow_rate let through for one sender: at the instant `at`
\* and at the instant before it.
NoneAdmitted == [at |-> 0, pkts |-> 0, bytes |-> 0, prev_pkts |-> 0, prev_bytes |-> 0]
admit(a, t, bytes) ==
    IF t = a.at THEN [a EXCEPT !.pkts = @ + 1, !.bytes = @ + bytes]
    ELSE [at |-> t, pkts |-> 1, bytes |-> bytes,
          prev_pkts |-> IF t = a.at + 1 THEN a.pkts ELSE 0,
          prev_bytes |-> IF t = a.at + 1 THEN a.bytes ELSE 0]

\* A send loop: the queue of its channel and whether its receiving end is
\* still there.
SendLoop(queue, open) == [queue |-> queue, open |-> open]

\* mpsc try_send: the message is queued unless the channel is full or
\* closed; [ok, loop].
try_send(loop, pkt) ==
    IF loop.open /\ Len(loop.queue) < QueueCap
    THEN [ok |-> TRUE, loop |-> SendLoop(Append(loop.queue, pkt), TRUE)]
    ELSE [ok |-> FALSE, loop |-> loop]

\* enqueue_to_receiver: the receiver's loop is used when there is one, and
\* created when the receiver has a session; [ok, loops].
enqueue_to_receiver(loops, reg, receiver, pkt) ==
    IF loops[receiver] # {}
    THEN LET r == try_send(Unwrap(loops[receiver]), pkt)
         IN  [ok |-> r.ok, loops |-> [loops EXCEPT ![receiver] = Some(r.loop)]]
    ELSE IF receiver \notin reg THEN [ok |-> FALSE, loops |-> loops]
    ELSE LET r == try_send(SendLoop(<< >>, TRUE), pkt)
         IN  [ok |-> r.ok, loops |-> [loops EXCEPT ![receiver] = Some(r.loop)]]

\* The state of the fanout loop: the send loops, the receivers that took
\* the datagram and the send_queue_full drops.
Fanout(loops, forwarded, dropped) ==
    [loops |-> loops, forwarded |-> forwarded, dropped |-> dropped]
fanout_step(acc, reg, uid, pkt) ==
    LET r == enqueue_to_receiver(acc.loops, reg, uid, pkt)
    IN  IF r.ok THEN Fanout(r.loops, acc.forwarded + 1, acc.dropped)
        ELSE Fanout(r.loops, acc.forwarded, acc.dropped + 1)

\* A fanout loop without the sender check.
RECURSIVE FanoutToAll(_, _, _, _, _)
FanoutToAll(acc, reg, members, sender, pkt) ==
    IF members = {} THEN acc
    ELSE LET uid == CHOOSE x \in members : TRUE
         IN  FanoutToAll(fanout_step(acc, reg, uid, pkt), reg, members \ {uid}, sender, pkt)

\* A fanout loop that ends at the first receiver that does not take the
\* datagram.
RECURSIVE FanoutUntilFull(_, _, _, _, _)
FanoutUntilFull(acc, reg, members, sender, pkt) ==
    IF members = {} \/ acc.dropped > 0 THEN acc
    ELSE LET uid == CHOOSE x \in members : TRUE
         IN  IF uid = sender
             THEN FanoutUntilFull(acc, reg, members \ {uid}, sender, pkt)
             ELSE FanoutUntilFull(fanout_step(acc, reg, uid, pkt), reg, members \ {uid},
                                  sender, pkt)

\* The fanout loop of handle_incoming: every member but the sender.
RECURSIVE fanout(_, _, _, _, _)
fanout(acc, reg, members, sender, pkt) ==
    IF members = {} THEN acc
    ELSE LET uid == CHOOSE x \in members : TRUE
         IN  IF uid = sender
             THEN fanout(acc, reg, members \ {uid}, sender, pkt)
             ELSE fanout(fanout_step(acc, reg, uid, pkt), reg, members \ {uid}, sender, pkt)

\* handle_incoming: the gates in the order of the code, then the fanout.
\* allow_rate and allow_talker keep their update when a later gate drops
\* the datagram.
handle_incoming(sender, d) ==
    LET rx == inc(inc(NoMetrics, "rx_packets", 1), "rx_bytes", d.len)
        hdr == parse(d)
        ra == allow_rate(rate, sender, d.len, vnow)
        ch == resolve_channel_for_sender(membership, sender, Unwrap(hdr).channel_route)
        ta == allow_talker(talkers, membership, Unwrap(ch), sender, vnow)
        pkt == [from |-> sender, len |-> d.len]
        out == fanout(Fanout(send_loops, 0, 0), registry,
                      provider_list_members(membership, Unwrap(ch)), sender, pkt)
    IN  /\ received < MaxDatagrams
        /\ received' = received + 1
        /\ lastSender' = sender
        /\ lastDatagram' = d
        /\ IF d.len < min_datagram_bytes \/ d.len > max_datagram_bytes
           THEN /\ verdict' = "invalid"
                /\ metrics' = inc(rx, "drop_invalid", 1)
                /\ UNCHANGED <<rate, admitted, talkers, send_loops>>
           ELSE IF hdr = {}
           THEN /\ verdict' = "invalid"
                /\ metrics' = inc(rx, "drop_invalid", 1)
                /\ UNCHANGED <<rate, admitted, talkers, send_loops>>
           ELSE IF ~ts_sane(Unwrap(hdr).ts_ms, vnow, max_ts_skew_ms)
           THEN /\ verdict' = "invalid"
                /\ metrics' = inc(rx, "drop_invalid", 1)
                /\ UNCHANGED <<rate, admitted, talkers, send_loops>>
           ELSE /\ rate' = [rate EXCEPT ![sender] = Some(ra.st)]
                /\ IF ~ra.ok
                   THEN /\ verdict' = "rate_limited"
                        /\ metrics' = inc(rx, "drop_rate_limited", 1)
                        /\ UNCHANGED <<admitted, talkers, send_loops>>
                   ELSE /\ admitted' = [admitted EXCEPT ![sender] = admit(@, vnow, d.len)]
                        /\ IF ch = {}
                           THEN /\ verdict' = "not_member"
                                /\ metrics' = inc(rx, "drop_not_member", 1)
                                /\ UNCHANGED <<talkers, send_loops>>
                           ELSE IF is_muted(membership, Unwrap(ch), sender)
                           THEN /\ verdict' = "muted"
                                /\ metrics' = inc(rx, "drop_muted", 1)
                                /\ UNCHANGED <<talkers, send_loops>>
                           ELSE /\ talkers' = [talkers EXCEPT ![Unwrap(ch)] = Some(ta.set)]
                                /\ IF ~ta.ok
                                   THEN /\ verdict' = "talker_limit"
                                        /\ metrics' = inc(rx, "drop_talker_limit", 1)
                                        /\ UNCHANGED send_loops
                                   ELSE /\ verdict' = "forwarded"
                                        /\ metrics' = inc_forwarded(
                                               inc(rx, "drop_send_queue_full", out.dropped),
                                               out.forwarded)
                                        /\ send_loops' = out.loops
        /\ UNCHANGED <<storeVars, tx, now, nextOp, connVars, cacheVars, pushHub, dispVars,
                       membership, registry, vnow, cfg, slowPath>>

\* One turn of a receiver's send loop: the oldest datagram goes to the
\* connection; when that send fails the loop ends and its receiver is dropped.
SendLoopStep(u) ==
    /\ send_loops[u] # {}
    /\ Unwrap(send_loops[u]).open
    /\ Unwrap(send_loops[u]).queue # << >>
    /\ \E sent \in BOOLEAN :
        send_loops' = [send_loops EXCEPT ![u] =
            IF sent THEN Some(SendLoop(Tail(Unwrap(send_loops[u]).queue), TRUE))
            ELSE Some(SendLoop(<< >>, FALSE))]
    /\ UNCHANGED <<storeVars, tx, now, nextOp, connVars, cacheVars, pushHub, dispVars,
                   membership, registry, rate, talkers, vnow, received, verdict,
                   cfg, metrics, lastSender, lastDatagram, admitted,
               slowPath>>

\* SessionRegistryImpl::register and unregister: a connection's datagram
\* handle enters the registry the forwarder looks receivers up in, or
\* leaves it.
RegisterDatagramTx(u) ==
    /\ u \notin registry
    /\ registry' = registry \cup {u}
    /\ UNCHANGED <<storeVars, tx, now, nextOp, connVars, cacheVars, pushHub, dispVars,
                   membership, send_loops, rate, talkers, vnow, received, verdict,
                   cfg, metrics, lastSender, lastDatagram, admitted,
               slowPath>>

UnregisterDatagramTx(u) ==
    /\ u \in registry
    /\ registry' = registry \ {u}
    /\ UNCHANGED <<storeVars, tx, now, nextOp, connVars, cacheVars, pushHub, dispVars,
                   membership, send_loops, rate, talkers, vnow, received, verdict,
                   cfg, metrics, lastSender, lastDatagram, admitted,
               slowPath>>

\* The gateway installs a channel's state in the cache, as after a join.
SetChannelState(ch, members, max) ==
    /\ membership' = cache_set_channel_state(membership, ch, members, max)
    /\ UNCHANGED <<storeVars, tx, now, nextOp, connVars, cacheVars, pushHub, dispVars,
                   registry, send_loops, rate, talkers, vnow, received, verdict,
                   cfg, metrics, lastSender, lastDatagram, admitted,
               slowPath>>

\* The gateway takes a member out of the cache, as after a leave.
RemoveMember(ch, u) ==
    /\ membership.user_channel[u] = Some(ch)
    /\ membership' = remove_member(membership, ch, u)
    /\ UNCHANGED <<storeVars, tx, now, nextOp, connVars, cacheVars, pushHub, dispVars,
                   registry, send_loops, rate, talkers, vnow, received, verdict,
                   cfg, metrics, lastSender, lastDatagram, admitted,
               slowPath>>

\* One second passes on the forwarder's clock.
VoiceTick ==
    /\ vnow < MaxVTime
    /\ vnow' = vnow + 1
    /\ UNCHANGED <<storeVars, tx, now, nextOp, connVars, cacheVars, pushHub, dispVars,
                   membership, registry, send_loops, rate, talkers, received, verdict,
                   cfg, metrics, lastSender, lastDatagram, admitted,
               slowPath>>

\* ------------------------------------------------------------ the system

vars == <<channels, channel_members, chat_messages, audit_log, outbox_events, applied,
          acl, tx, now, nextOp, conn, lastSent, sessions, dgLoop, cacheChan, cacheUser,
          pushHub, disp, handled, lastPush, enqueued, membership, registry, send_loops,
          rate, talkers, vnow, received, verdict, cfg, metrics, lastSender, lastDatagram, admitted,
               slowPath>>

\* A forwarder that has seen no datagram.
EmptyMembership ==
    [user_channel |-> [u \in VoiceUsers |-> {}],
     channel_members |-> [c \in Channels |-> {}],
     channel_max_talkers |-> [c \in Channels |-> {}]]

\* No enqueue_to_receiver call is between its lookup and its insert, and no
\* writer task has been spawned.
NoSlowPath == [pending |-> {}, tasks |-> [u \in VoiceUsers |-> 0]]

VoiceFresh ==
    /\ send_loops = [u \in VoiceUsers |-> {}]
    /\ rate = [u \in VoiceUsers |-> {}]
    /\ talkers = [c \in Channels |-> {}]
    /\ vnow = 0
    /\ received = 0
    /\ verdict = "none"
    /\ metrics = NoMetrics
    /\ lastSender = None
    /\ lastDatagram = None
    /\ admitted = [u \in VoiceUsers |-> NoneAdmitted]
    /\ slowPath = NoSlowPath

VoiceIdle ==
    /\ membership = EmptyMembership
    /\ registry = {}
    /\ cfg = DefaultConfig
    /\ VoiceFresh

\* The state after both gateways have started on an empty database.
Init ==
    /\ channels = << >>
    /\ channel_members = << >>
    /\ chat_messages = {}
    /\ audit_log = {}
    /\ outbox_events = << >>
    /\ applied = {}
    /\ acl = InitAcl
    /\ tx = [u \in Users |-> IdleTx]
    /\ now = 0
    /\ nextOp = 1
    /\ conn = [u \in Users |-> IdleConn]
    /\ lastSent = [u \in Users |-> Unsent]
    /\ sessions = [g \in Gateways |-> {}]
    /\ dgLoop = [u \in Users |-> FALSE]
    /\ cacheChan = [g \in Gateways |-> [c \in Channels |-> {}]]
    /\ cacheUser = [g \in Gateways |-> [u \in Users |-> {}]]
    /\ pushHub = [g \in Gateways |-> [u \in Users |-> {}]]
    /\ disp = [g \in Gateways |-> IdleDisp]
    /\ handled = [g \in Gateways |-> {}]
    /\ lastPush = Unsent
    /\ enqueued = {}
    /\ VoiceIdle

Handshake(u) ==
    \/ AcceptBi(u)
    \/ \E rid \in ReqIds, kind \in PayloadKinds : do_hello(u, rid, kind)
    \/ \E rid \in ReqIds, kind \in PayloadKinds, accepted \in BOOLEAN :
            do_auth(u, rid, kind, accepted)
    \/ StartSession(u)

RequestLoop(u) ==
    \/ \E rid \in ReqIds : ReadPing(u, rid)
    \/ \E rid \in ReqIds, kind \in {"Hello", "AuthRequest", None} : ReadOther(u, rid, kind)
    \/ \E rid \in ReqIds, r \in RequestShapes : ReadRequest(u, rid, r)
    \/ GwRespond(u)
    \/ GwGetChannelFail(u)

Service(u) ==
    SvcChange(u) \/ SvcAudit(u) \/ SvcOutbox(u) \/ SvcCommit(u) \/ SvcFail(u)

Dispatcher(g) ==
    ClaimStmt(g) \/ ClaimCommit(g) \/ ClaimFail(g) \/ HandleRecord(g)

\* Two clients, one on each gateway, and the control service behind them.
NextConn == \E u \in Users : Handshake(u) \/ RequestLoop(u) \/ Service(u)

SpecConn == Init /\ [][NextConn]_vars

\* The handshakes of both connections alone.  The gateway's own steps are
\* taken when they can be: accept_bi returns or times out, and the session
\* is started after do_auth.  The reads of do_hello and do_auth wait for the
\* client and carry no timeout, so nothing forces them.
NextHandshake == \E u \in Users : Handshake(u)

SpecHandshake ==
    /\ Init
    /\ [][NextHandshake]_vars
    /\ \A u \in Users : WF_vars(AcceptBi(u)) /\ WF_vars(StartSession(u))

\* One client on gateway g1 from the handshake on, the control service,
\* the dispatcher of g1 and the database clock.
NextSolo ==
    \/ Handshake("u1") \/ RequestLoop("u1") \/ Service("u1")
    \/ Dispatcher("g1")
    \/ Tick

SpecSolo == Init /\ [][NextSolo]_vars

\* Both clients have completed the handshake: each sent Hello with request
\* id 1 and AuthRequest with request id 2, and their sessions are started.
ReadyConn ==
    [IdleConn EXCEPT !.pc = "ready", !.first = "Hello", !.second = "AuthRequest",
                     !.authed = TRUE, !.req = [rid |-> 2, kind |-> "AuthRequest"]]

InitReady ==
    /\ channels = << >>
    /\ channel_members = << >>
    /\ chat_messages = {}
    /\ audit_log = {}
    /\ outbox_events = << >>
    /\ applied = {}
    /\ acl = InitAcl
    /\ tx = [u \in Users |-> IdleTx]
    /\ now = 0
    /\ nextOp = 1
    /\ conn = [u \in Users |-> ReadyConn]
    /\ lastSent = [u \in Users |-> Envelope(2, "AuthResponse", None)]
    /\ sessions = [g \in Gateways |-> {u \in Users : GwOf(u) = g}]
    /\ dgLoop = [u \in Users |-> TRUE]
    /\ cacheChan = [g \in Gateways |-> [c \in Channels |-> {}]]
    /\ cacheUser = [g \in Gateways |-> [u \in Users |-> {}]]
    /\ pushHub = [g \in Gateways |-> [u \in Users |-> {}]]
    /\ disp = [g \in Gateways |-> IdleDisp]
    /\ handled = [g \in Gateways |-> {}]
    /\ lastPush = Unsent
    /\ enqueued = {}
    /\ VoiceIdle

\* The requests the client of the outbox pipeline sends, all well-formed.
OutboxShapes ==
    {Req("CreateChannelRequest", None, None, None, TRUE),
     Req("JoinChannelRequest", "c1", None, None, TRUE),
     Req("LeaveChannelRequest", "c1", None, None, TRUE),
     Req("SendMessageRequest", "c1", None, None, TRUE),
     Req("ModerationActionRequest", "c1", "u1", "mute", TRUE)}

\* The outbox pipeline: well-formed requests of the client on g1, the
\* control service, the dispatchers of both gateways and the database clock.
NextOutbox ==
    \/ \E r \in OutboxShapes : ReadRequest("u1", 1, r)
    \/ GwRespond("u1") \/ GwGetChannelFail("u1")
    \/ Service("u1")
    \/ \E g \in Gateways : Dispatcher(g)
    \/ Tick

SpecOutbox == InitReady /\ [][NextOutbox]_vars

\* The dispatchers kept running: u1 creates channels, the service commits
\* their channel.created rows, and the claim, its commit and the handling of
\* a claimed batch are taken whenever they can be; no claim step fails and
\* the clock goes on.
NextPublish ==
    \/ ReadRequest("u1", 1, Req("CreateChannelRequest", None, None, None, TRUE))
    \/ GwRespond("u1")
    \/ Service("u1")
    \/ \E g \in Gateways : ClaimStmt(g) \/ ClaimCommit(g) \/ HandleRecord(g)
    \/ Tick

SpecPublish ==
    /\ InitReady
    /\ [][NextPublish]_vars
    /\ \A g \in Gateways :
          WF_vars(ClaimStmt(g)) /\ WF_vars(ClaimCommit(g)) /\ WF_vars(HandleRecord(g))
    /\ WF_vars(Tick)


\* The contents the membership cache may have when datagrams arrive: any
\* member list for channel c1, with or without the sender, any user-to-
\* channel index, and the default talker limit.
MemberMaps == UNION {[S -> [muted : BOOLEAN]] : S \in SUBSET Users}

VoiceMemberships ==
    {[user_channel |-> uc,
      channel_members |-> [c \in Channels |-> IF c = "c1" THEN cm ELSE {}],
      channel_max_talkers |-> [c \in Channels |-> {}]] :
        uc \in {[u \in VoiceUsers |-> IF u \in Users THEN f[u] ELSE {}] :
                    f \in [Users -> {{}, {"c1"}}]},
        cm \in {{}} \cup {{m} : m \in MemberMaps}}

\* The forwarder of one gateway with its cache and session registry already
\* filled; the control plane is idle.
InitVoice ==
    /\ channels = << >>
    /\ channel_members = << >>
    /\ chat_messages = {}
    /\ audit_log = {}
    /\ outbox_events = << >>
    /\ applied = {}
    /\ acl = InitAcl
    /\ tx = [u \in Users |-> IdleTx]
    /\ now = 0
    /\ nextOp = 1
    /\ conn = [u \in Users |-> ReadyConn]
    /\ lastSent = [u \in Users |-> Envelope(2, "AuthResponse", None)]
    /\ sessions = [g \in Gateways |-> {u \in Users : GwOf(u) = g}]
    /\ dgLoop = [u \in Users |-> TRUE]
    /\ cacheChan = [g \in Gateways |-> [c \in Channels |-> {}]]
    /\ cacheUser = [g \in Gateways |-> [u \in Users |-> {}]]
    /\ pushHub = [g \in Gateways |-> [u \in Users |-> {}]]
    /\ disp = [g \in Gateways |-> IdleDisp]
    /\ handled = [g \in Gateways |-> {}]
    /\ lastPush = Unsent
    /\ enqueued = {}
    /\ membership \in VoiceMemberships
    /\ registry \in SUBSET Users
    /\ cfg = DefaultConfig
    /\ VoiceFresh

\* The seconds the gate checks let the forwarder's clock advance.
VoiceHorizon == 1

NextVoice ==
    \/ \E sender \in Users : \E d \in DatagramInputs(vnow) : handle_incoming(sender, d)
    \/ \E u \in Users : SendLoopStep(u)
    \/ \E u \in Users : RemoveMember("c1", u)
    \/ vnow < VoiceHorizon /\ VoiceTick

SpecVoice == InitVoice /\ [][NextVoice]_vars


\* The control plane with both clients past the handshake and nothing else
\* done: the state the forwarder-only specifications leave untouched.
ControlReady ==
    /\ channels = << >>
    /\ channel_members = << >>
    /\ chat_messages = {}
    /\ audit_log = {}
    /\ outbox_events = << >>
    /\ applied = {}
    /\ tx = [u \in Users |-> IdleTx]
    /\ now = 0
    /\ nextOp = 1
    /\ conn = [u \in Users |-> ReadyConn]
    /\ lastSent = [u \in Users |-> Envelope(2, "AuthResponse", None)]
    /\ sessions = [g \in Gateways |-> {u \in Users : GwOf(u) = g}]
    /\ dgLoop = [u \in Users |-> TRUE]
    /\ cacheChan = [g \in Gateways |-> [c \in Channels |-> {}]]
    /\ cacheUser = [g \in Gateways |-> [u \in Users |-> {}]]
    /\ pushHub = [g \in Gateways |-> [u \in Users |-> {}]]
    /\ disp = [g \in Gateways |-> IdleDisp]
    /\ handled = [g \in Gateways |-> {}]
    /\ lastPush = Unsent
    /\ enqueued = {}

\* A cache in which the given users are unmuted members of c1, with the
\* given talker limit (None when the channel's limit was never stored).
JoinedCache(S, limit) ==
    [user_channel |-> [u \in VoiceUsers |-> IF u \in S THEN Some("c1") ELSE {}],
     channel_members |-> [c \in Channels |->
                             IF c = "c1" THEN Some([u \in S |-> [muted |-> FALSE]]) ELSE {}],
     channel_max_talkers |-> [c \in Channels |-> IF c = "c1" THEN limit ELSE {}]]

\* The talker limits a channel row may bring into the cache.
TalkerLimits == {0, 1}

\* The well-formed datagrams a member of c1 sends at time t: a bare header
\* and a header with 80 bytes of payload.
VoiceFrame(t, len) == Datagram(1, 1, 20, channel_route_hash("c1"), unix_ms(t), len)
VoiceFrames(t) == {VoiceFrame(t, len) : len \in {20, 100}}

\* The rate and talker gates: both clients are unmuted members of c1 and
\* may have sent before; the forwarder is built with either configuration;
\* the channel's limit is any of the stored ones or missing, and a later
\* join may store another.
InitGates ==
    /\ ControlReady
    /\ acl = InitAcl
    /\ \E limit \in {{}} \cup {{n} : n \in TalkerLimits} :
          membership = JoinedCache(Users, limit)
    /\ registry = Users
    /\ cfg \in Configs
    /\ send_loops = [u \in VoiceUsers |-> {}]
    /\ rate \in {[u \in VoiceUsers |-> IF u \in S THEN Some(NewRateState(0)) ELSE {}] :
                    S \in SUBSET Users}
    /\ talkers = [c \in Channels |-> {}]
    /\ vnow = 0
    /\ received = 0
    /\ verdict = "none"
    /\ metrics = NoMetrics
    /\ lastSender = None
    /\ lastDatagram = None
    /\ admitted = [u \in VoiceUsers |-> NoneAdmitted]
    /\ slowPath = NoSlowPath

NextGates ==
    \/ \E sender \in Users : \E d \in VoiceFrames(vnow) : handle_incoming(sender, d)
    \/ \E max \in TalkerLimits :
          SetChannelState("c1", Unwrap(membership.channel_members["c1"]), max)
    \/ \E u \in Users : SendLoopStep(u)
    \/ VoiceTick

SpecGates == InitGates /\ [][NextGates]_vars


\* The permission tables a deployment may hold for joining c1: any set of
\* deny and grant overrides on the channel and any set of deny and grant
\* role entries, the same for both users; creating a channel is granted to
\* both by role.
AclTables ==
    {[overrides |-> {<<"c1", u, "JoinChannel", e>> : u \in Users, e \in eo},
      roles |-> {<<u, "CreateChannel", "grant">> : u \in Users}
                \cup {<<u, "JoinChannel", e>> : u \in Users, e \in er}] :
        eo \in SUBSET {"deny", "grant"}, er \in SUBSET {"deny", "grant"}}

\* The requests of the permission check: a channel is created, c1 is joined.
PermShapes ==
    {Req("CreateChannelRequest", None, None, None, TRUE),
     Req("JoinChannelRequest", "c1", None, None, TRUE)}

\* Both clients past the handshake, under any of the permission tables.
InitPerm ==
    /\ ControlReady
    /\ acl \in AclTables
    /\ VoiceIdle

NextPerm ==
    \E u \in Users :
        \/ \E r \in PermShapes : ReadRequest(u, 1, r)
        \/ GwRespond(u) \/ GwGetChannelFail(u)
        \/ Service(u)

SpecPerm == InitPerm /\ [][NextPerm]_vars

\* The member rows of c1 left by earlier joins and moderation: each user is
\* absent or holds a row, muted or not, joined at time 0 under an earlier
\* display name.  Nothing in the service sets deafened.
SeedMembers ==
    UNION {[{<<"c1", u>> : u \in S} ->
               {Member("c1", u, "old", muted, FALSE, 0) : u \in S, muted \in BOOLEAN}] :
           S \in SUBSET Users}

\* The database of a service in use: c1 exists, with or without a member
\* limit of one, and holds member rows within that limit, each under its
\* own key.  The audit log and the outbox show the rows written from here on.
SeedTables ==
    /\ \E max \in {{}, {1}} : channels = [c \in {"c1"} |-> [max_members |-> max, op |-> 0]]
    /\ channel_members \in SeedMembers
    /\ \A k \in DOMAIN channel_members : channel_members[k].user_id = k[2]
    /\ channels["c1"].max_members # {} =>
          Cardinality(DOMAIN channel_members) <= Unwrap(channels["c1"].max_members)

\* The requests of the membership operations, all well-formed.
MemberShapes ==
    {Req("CreateChannelRequest", None, None, None, TRUE),
     Req("JoinChannelRequest", "c1", None, None, TRUE),
     Req("SendMessageRequest", "c1", None, None, TRUE)}
    \cup {Req("ModerationActionRequest", "c1", t, a, TRUE) :
            t \in Users, a \in {"mute", "unmute"}}

\* Both clients past the handshake on a database in use.
InitMember ==
    /\ SeedTables
    /\ chat_messages = {}
    /\ audit_log = {}
    /\ outbox_events = << >>
    /\ applied = {}
    /\ acl = InitAcl
    /\ tx = [u \in Users |-> IdleTx]
    /\ now = 0
    /\ nextOp = 1
    /\ conn = [u \in Users |-> ReadyConn]
    /\ lastSent = [u \in Users |-> Envelope(2, "AuthResponse", None)]
    /\ sessions = [g \in Gateways |-> {u \in Users : GwOf(u) = g}]
    /\ dgLoop = [u \in Users |-> TRUE]
    /\ cacheChan = [g \in Gateways |-> [c \in Channels |-> {}]]
    /\ cacheUser = [g \in Gateways |-> [u \in Users |-> {}]]
    /\ pushHub = [g \in Gateways |-> [u \in Users |-> {}]]
    /\ disp = [g \in Gateways |-> IdleDisp]
    /\ handled = [g \in Gateways |-> {}]
    /\ lastPush = Unsent
    /\ enqueued = {}
    /\ VoiceIdle

\* The membership operations of both clients, the control service and the
\* database clock.
NextMember ==
    \/ \E u \in Users :
        \/ \E r \in MemberShapes : ReadRequest(u, 1, r)
        \/ GwRespond(u) \/ GwGetChannelFail(u)
        \/ Service(u)
    \/ Tick

SpecMember == InitMember /\ [][NextMember]_vars

\* PushHub::register and unregister: a connection's push queue enters the
\* hub of its gateway, empty, or leaves it.
PushRegister(g, u) ==
    /\ pushHub[g][u] = {}
    /\ pushHub' = [pushHub EXCEPT ![g][u] = Some(<< >>)]
    /\ UNCHANGED <<storeVars, tx, now, nextOp, connVars, cacheVars, dispVars, voiceVars>>

PushUnregister(g, u) ==
    /\ pushHub[g][u] # {}
    /\ pushHub' = [pushHub EXCEPT ![g][u] = {}]
    /\ UNCHANGED <<storeVars, tx, now, nextOp, connVars, cacheVars, dispVars, voiceVars>>

\* The records whose pushes are handed to the hub.
MaxPushes == 3

\* The push loop of handle_record for record r of a channel that both users
\* are members of: the translated push is sent to each of them.
PushLoop(g, r, topic) ==
    LET tr == translate_record([topic |-> topic, channel_id |-> "c1"])
    IN  /\ r \notin handled[g]
        /\ pushHub' = [pushHub EXCEPT ![g] = SendAll(@, Users, Unwrap(tr).push)]
        /\ handled' = [handled EXCEPT ![g] = @ \cup {r}]
        /\ lastPush' = Unwrap(tr).push
        /\ enqueued' = enqueued \cup {<<r, uid>> : uid \in Accepting(pushHub[g], Users)}
        /\ UNCHANGED <<storeVars, tx, now, nextOp, connVars, cacheVars, disp, voiceVars>>

\* The push hub of gateway g1 under registrations and pushes; everything
\* else is idle.
InitPush ==
    /\ ControlReady
    /\ acl = InitAcl
    /\ VoiceIdle

NextPush ==
    \/ \E u \in Users : PushRegister("g1", u)
    \/ \E u \in Users : PushUnregister("g1", u)
    \/ \E r \in 1..MaxPushes :
          \E topic \in {"presence.member_joined", "chat.message_posted",
                         "moderation.user_muted"} : PushLoop("g1", r, topic)

SpecPush == InitPush /\ [][NextPush]_vars

\* The chat pipeline of one channel: c1 exists with u1 as its member and u1
\* holds a push queue on g1; the outbox rows of what led here are
\* published.  Either u1 joined through this g1 process, whose cache then
\* lists u1 for c1, or g1 has started since and its cache is empty.  u1
\* posts messages, the service commits them and both dispatchers run.
InitOrder ==
    /\ channels = [c \in {"c1"} |-> [max_members |-> {}, op |-> 0]]
    /\ channel_members =
          [k \in {<<"c1", "u1">>} |-> Member("c1", "u1", DisplayNameOf("u1"), FALSE, FALSE, 0)]
    /\ chat_messages = {}
    /\ audit_log = {}
    /\ outbox_events = << >>
    /\ applied = {}
    /\ acl = InitAcl
    /\ tx = [u \in Users |-> IdleTx]
    /\ now = 0
    /\ nextOp = 1
    /\ conn = [u \in Users |-> ReadyConn]
    /\ lastSent = [u \in Users |-> Envelope(2, "AuthResponse", None)]
    /\ sessions = [g \in Gateways |-> {u \in Users : GwOf(u) = g}]
    /\ dgLoop = [u \in Users |-> TRUE]
    /\ \E cached \in BOOLEAN :
        /\ cacheChan = [g \in Gateways |-> [c \in Channels |->
                            IF cached /\ g = "g1" /\ c = "c1" THEN Some({"u1"}) ELSE {}]]
        /\ cacheUser = [g \in Gateways |-> [u \in Users |->
                            IF cached /\ g = "g1" /\ u = "u1"
                            THEN Some([channel_id |-> "c1", muted |-> FALSE]) ELSE {}]]
    /\ pushHub = [g \in Gateways |-> [u \in Users |->
                        IF g = "g1" /\ u = "u1" THEN Some(<< >>) ELSE {}]]
    /\ disp = [g \in Gateways |-> IdleDisp]
    /\ handled = [g \in Gateways |-> {}]
    /\ lastPush = Unsent
    /\ enqueued = {}
    /\ VoiceIdle

NextOrder ==
    \/ ReadRequest("u1", 1, Req("SendMessageRequest", "c1", None, None, TRUE))
    \/ GwRespond("u1")
    \/ Service("u1")
    \/ \E g \in Gateways : Dispatcher(g)
    \/ Tick

SpecOrder == InitOrder /\ [][NextOrder]_vars

\* enqueue_to_receiver step by step, as concurrent handle_incoming calls of
\* different senders run it.  slowPath.pending holds the calls that found no
\* send loop for their receiver and fetched its datagram handle;
\* slowPath.tasks counts the writer tasks spawned for a receiver that have
\* not ended.
RacePkt(s) == [from |-> s, len |-> 20]

\* Fast path: the read lock finds a send loop and try_send is called on it.
EnqueueFast(s, r) ==
    /\ s # r
    /\ <<s, r>> \notin slowPath.pending
    /\ send_loops[r] # {}
    /\ send_loops' = [send_loops EXCEPT
                        ![r] = Some(try_send(Unwrap(send_loops[r]), RacePkt(s)).loop)]
    /\ UNCHANGED <<storeVars, tx, now, nextOp, connVars, cacheVars, pushHub, dispVars,
                   membership, registry, rate, talkers, vnow, received, verdict,
                   cfg, metrics, lastSender, lastDatagram, admitted, slowPath>>

\* The read lock finds no send loop, it is released, and the session
\* registry returns the receiver's datagram handle.
EnqueueMiss(s, r) ==
    /\ s # r
    /\ <<s, r>> \notin slowPath.pending
    /\ send_loops[r] = {}
    /\ r \in registry
    /\ slowPath' = [slowPath EXCEPT !.pending = @ \cup {<<s, r>>}]
    /\ UNCHANGED <<storeVars, tx, now, nextOp, connVars, cacheVars, pushHub, dispVars,
                   membership, registry, send_loops, rate, talkers, vnow, received, verdict,
                   cfg, metrics, lastSender, lastDatagram, admitted>>

\* Slow path: a new channel is inserted under the write lock, replacing
\* whatever the map holds for the receiver, its writer task is spawned and
\* the datagram is sent on the new channel.
EnqueueInsert(s, r) ==
    /\ <<s, r>> \in slowPath.pending
    /\ send_loops' = [send_loops EXCEPT
                        ![r] = Some(try_send(SendLoop(<< >>, TRUE), RacePkt(s)).loop)]
    /\ slowPath' = [pending |-> slowPath.pending \ {<<s, r>>},
                    tasks |-> [slowPath.tasks EXCEPT ![r] = @ + 1]]
    /\ UNCHANGED <<storeVars, tx, now, nextOp, connVars, cacheVars, pushHub, dispVars,
                   membership, registry, rate, talkers, vnow, received, verdict,
                   cfg, metrics, lastSender, lastDatagram, admitted>>

\* The writer task of the channel in the map takes the oldest datagram and
\* sends it.
WriterSend(r) ==
    /\ send_loops[r] # {}
    /\ Unwrap(send_loops[r]).queue # << >>
    /\ send_loops' = [send_loops EXCEPT
                        ![r] = Some(SendLoop(Tail(Unwrap(send_loops[r]).queue), TRUE))]
    /\ UNCHANGED <<storeVars, tx, now, nextOp, connVars, cacheVars, pushHub, dispVars,
                   membership, registry, rate, talkers, vnow, received, verdict,
                   cfg, metrics, lastSender, lastDatagram, admitted, slowPath>>

\* A writer task whose channel was replaced in the map: every sender of
\* its channel is dropped, so after its queued datagrams recv() returns None
\* and the task ends.
ReplacedWriterEnds(r) ==
    /\ slowPath.tasks[r] > 1
    /\ slowPath' = [slowPath EXCEPT !.tasks[r] = @ - 1]
    /\ UNCHANGED <<storeVars, tx, now, nextOp, connVars, cacheVars, pushHub, dispVars,
                   membership, registry, send_loops, rate, talkers, vnow, received, verdict,
                   cfg, metrics, lastSender, lastDatagram, admitted>>

\* Both clients and the listener are in c1 with sessions; the datagram
\* loops of the two clients call handle_incoming concurrently and their
\* fanouts reach enqueue_to_receiver.
NextRace ==
    \/ \E s \in Users, r \in VoiceUsers : EnqueueFast(s, r)
    \/ \E s \in Users, r \in VoiceUsers : EnqueueMiss(s, r)
    \/ \E s \in Users, r \in VoiceUsers : EnqueueInsert(s, r)
    \/ \E r \in VoiceUsers : WriterSend(r)
    \/ \E r \in VoiceUsers : ReplacedWriterEnds(r)

\* The fanout: the two clients and a listener are unmuted members of c1 and
\* hold sessions; the clients have sent before; receivers drain their
\* queues, lose their connection and register again.
InitFanout ==
    /\ ControlReady
    /\ acl = InitAcl
    /\ membership = JoinedCache(VoiceUsers, {})
    /\ registry = VoiceUsers
    /\ cfg = DefaultConfig
    /\ send_loops = [u \in VoiceUsers |-> {}]
    /\ rate = [u \in VoiceUsers |-> IF u \in Users THEN Some(NewRateState(0)) ELSE {}]
    /\ talkers = [c \in Channels |-> {}]
    /\ vnow = 0
    /\ received = 0
    /\ verdict = "none"
    /\ metrics = NoMetrics
    /\ lastSender = None
    /\ lastDatagram = None
    /\ admitted = [u \in VoiceUsers |-> NoneAdmitted]
    /\ slowPath = NoSlowPath

NextFanout ==
    \/ \E sender \in Users : handle_incoming(sender, VoiceFrame(vnow, 20))
    \/ \E u \in VoiceUsers : SendLoopStep(u)
    \/ \E u \in VoiceUsers : UnregisterDatagramTx(u)
    \/ \E u \in VoiceUsers : RegisterDatagramTx(u)
    \/ VoiceTick

SpecFanout == InitFanout /\ [][NextFanout]_vars

\* The membership cache alone, empty at start: channel states are
\* replaced with the member lists the control service returns for a join,
\* and members are removed from the channel they resolve to.
NextCache ==
    \/ \E ch \in Channels, m \in MemberMaps, max \in TalkerLimits :
          SetChannelState(ch, m, max)
    \/ \E ch \in Channels, u \in Users : RemoveMember(ch, u)

SpecCache == InitPush /\ [][NextCache]_vars

\* The same members and sessions under the stepwise enqueue.
SpecRace == InitFanout /\ [][NextRace]_vars

\* ------------------------------------------------------------------ C1

OpsOf(S) == {a.op : a \in S}
RowsOfOp(id) == {r \in DOMAIN outbox_events : r[1] = id}

\* C1: each mutating operation (create channel, join, leave, set voice mute,
\* send message) commits its state change, its audit entry and all of its
\* outbox rows together or none of them, and no claim ever returns an outbox
\* row whose operation's state change is not committed.
C1_TransactionalOutbox ==
    /\ \A a \in applied :
          /\ \E e \in audit_log : e.op = a.op /\ e.action \in
                {AuditAction(a.kind, TRUE), AuditAction(a.kind, FALSE)}
          /\ RowsOfOp(a.op) = {<<a.op, i>> : i \in 1..Len(Topics(a.kind))}
          /\ \A r \in RowsOfOp(a.op) : outbox_events[r].topic = Topics(a.kind)[r[2]]
          /\ a.kind = "CreateChannelRequest" =>
                \E c \in DOMAIN channels : channels[c].op = a.op
          /\ a.kind = "SendMessageRequest" => \E m \in chat_messages : m.id = a.op
    /\ \A e \in audit_log : e.op \in OpsOf(applied)
    /\ \A r \in DOMAIN outbox_events : r[1] \in OpsOf(applied)
    /\ \A c \in DOMAIN channels : channels[c].op \in OpsOf(applied)
    /\ \A m \in chat_messages : m.id \in OpsOf(applied)
    /\ \A g \in Gateways : \A r \in disp[g].batch :
          r \in DOMAIN outbox_events /\ r[1] \in OpsOf(applied)

\* A mute has committed its two outbox rows and a dispatcher holds one of
\* them in its claimed batch.
C1_Witness ==
    /\ \E a \in applied :
          /\ a.kind = "ModerationActionRequest"
          /\ \E g \in Gateways : disp[g].batch \cap RowsOfOp(a.op) # {}
    /\ nextOp > MaxOps


\* ------------------------------------------------------------------ C2

\* The user has a live authenticated session on its gateway.
LiveSession(u) ==
    u \in sessions[GwOf(u)] /\ conn[u].pc \in {"ready", "svc", "post"}

\* The user of a member_joined row has been a member of the row's channel
\* ever since the row was committed.
MemberSince(rec) ==
    /\ <<rec.channel_id, rec.user_id>> \in DOMAIN channel_members
    /\ \A q \in DOMAIN outbox_events :
          ~(/\ outbox_events[q].topic = "presence.member_left"
            /\ outbox_events[q].channel_id = rec.channel_id
            /\ outbox_events[q].user_id = rec.user_id)

\* C2: every committed outbox row is eventually enqueued as a push on the
\* send queue of every member of its channel that has a live session on the
\* gateway.  A published row is never handled again, so for a published
\* member_joined row the push must already be in the queue of the joined
\* member, if that member never left and its session is live.
C2_PublishedPushDelivered ==
    \A r \in DOMAIN outbox_events :
        LET rec == outbox_events[r]
        IN  (/\ rec.topic = "presence.member_joined"
             /\ rec.published_at # {}
             /\ MemberSince(rec)
             /\ LiveSession(rec.user_id))
            => <<r, rec.user_id>> \in enqueued


\* ------------------------------------------------------------------ C3

\* In this step dispatcher g finishes handle_record for row r.
HandledBy(g, r) ==
    disp[g].pc = "handle" /\ r \in disp[g].batch /\ r \notin disp'[g].batch

\* C3: published_at of a row, once set, never changes, so at most one ack
\* sets it; an ack whose token is not the row's claim token, or that comes
\* after the row is published, changes no row; an ack changes no row but
\* its own.
C3_AckOnce ==
    [][/\ \A r \in DOMAIN outbox_events :
             outbox_events[r].published_at # {} =>
                outbox_events'[r].published_at = outbox_events[r].published_at
       /\ \A g \in Gateways : \A r \in DOMAIN outbox_events :
             HandledBy(g, r) =>
                /\ ~AckMatches(outbox_events, r, TokenOf(g)) =>
                      outbox_events' = outbox_events
                /\ \A q \in DOMAIN outbox_events \ {r} :
                      outbox_events'[q] = outbox_events[q]]_vars

\* A row is published and both dispatchers have run handle_record on it:
\* one ack set published_at, the other found the token changed or the row
\* published.
C3_Witness ==
    \E r \in DOMAIN outbox_events :
        /\ outbox_events[r].published_at # {}
        /\ \A g \in Gateways : r \in handled[g]


\* ------------------------------------------------------------------ C4

\* In this step dispatcher g's claim statement returns a batch.
ClaimReturns(g) == disp[g].pc = "poll" /\ disp'[g].pc = "claimed"

\* The row is unpublished and carries a claim that has not expired at t.
UnexpiredClaim(row, t) ==
    /\ row.published_at = {}
    /\ row.claimed_at # {}
    /\ ~(Unwrap(row.claimed_at) < t - ClaimTtl)

\* C4: claims whose transactions are open at the same time hold disjoint
\* batches, and a claim never returns an unpublished row whose claim by
\* another token has not expired.
C4_DisjointClaims ==
    /\ [](\A g, h \in Gateways :
            (g # h /\ disp[g].pc = "claimed" /\ disp[h].pc = "claimed")
                => disp[g].batch \cap disp[h].batch = {})
    /\ [][\A g \in Gateways : ClaimReturns(g) =>
            \A r \in disp'[g].batch :
                ~(/\ UnexpiredClaim(outbox_events[r], now)
                  /\ outbox_events[r].claim_token # TokenOf(g))]_vars

\* Both dispatchers are inside their claim transactions, each with rows,
\* while a third row stays claimed and unexpired outside both batches.
C4_Witness ==
    /\ \A g \in Gateways : disp[g].pc = "claimed" /\ disp[g].batch # {}
    /\ \E r \in DOMAIN outbox_events :
          /\ UnexpiredClaim(outbox_events[r], now)
          /\ \A g \in Gateways : r \notin disp[g].batch


\* ------------------------------------------------------------------ C5

\* The row is unpublished and its claim is older than the TTL at t.
ExpiredClaim(row, t) ==
    /\ row.published_at = {}
    /\ row.claimed_at # {}
    /\ Unwrap(row.claimed_at) < t - ClaimTtl

\* No claim returns a claimed row before its TTL has elapsed.
NoEarlyReclaim ==
    \A g \in Gateways : ClaimReturns(g) =>
        \A r \in disp'[g].batch :
            outbox_events[r].claimed_at # {} => ExpiredClaim(outbox_events[r], now)

\* The commit of a claim puts the claimer's token and time on its rows.
ClaimReplacesToken ==
    \A g \in Gateways :
        (disp[g].pc = "claimed" /\ disp'[g].pc = "handle") =>
            \A r \in disp[g].batch :
                /\ outbox_events'[r].claim_token = TokenOf(g)
                /\ outbox_events'[r].claimed_at = Some(disp[g].at)

\* An ack with a token that is no longer the row's leaves published_at alone.
StaleAckIsNoOp ==
    \A g \in Gateways : \A r \in DOMAIN outbox_events :
        (HandledBy(g, r) /\ outbox_events[r].claim_token # TokenOf(g)) =>
            outbox_events'[r].published_at = outbox_events[r].published_at

\* C5 as stated: a claimed, unacked row is returned by no claim before its
\* TTL has elapsed and by the next claim of any dispatcher after that, with
\* the claimer's token replacing the old one; an ack with the old token then
\* does not set published_at.  (Rows another open claim has locked are left
\* out: that claim is the next one.)
C5_ReclaimByNextClaim ==
    [][/\ NoEarlyReclaim
       /\ \A g \in Gateways : ClaimReturns(g) =>
             \A r \in DOMAIN outbox_events \ LockedByOthers(g) :
                 ExpiredClaim(outbox_events[r], now) => r \in disp'[g].batch
       /\ ClaimReplacesToken
       /\ StaleAckIsNoOp]_vars

\* C5 amended: as above, but the next claim returns the expired row unless
\* the batch limit is filled by older claimable rows.
C5_ReclaimWithinLimit ==
    [][/\ NoEarlyReclaim
       /\ \A g \in Gateways : ClaimReturns(g) =>
             \A r \in DOMAIN outbox_events \ LockedByOthers(g) :
                 ExpiredClaim(outbox_events[r], now) =>
                    \/ r \in disp'[g].batch
                    \/ /\ Cardinality(disp'[g].batch) = BatchSize
                       /\ \A q \in disp'[g].batch : Before(q, r)
       /\ ClaimReplacesToken
       /\ StaleAckIsNoOp]_vars

\* Dispatcher g1 still holds a row of its batch that g2 has reclaimed after
\* the TTL: the row carries T2, and g1's ack with T1 is still to come.
C5_Witness ==
    \E r \in DOMAIN outbox_events :
        /\ disp["g1"].pc = "handle"
        /\ r \in disp["g1"].batch
        /\ outbox_events[r].claim_token = "T2"
        /\ outbox_events[r].published_at = {}
        /\ translate_record(outbox_events[r]) # {}


\* ------------------------------------------------------------------ C6

\* C6: with two gateways polling the outbox, every committed row is
\* processed for local fanout by both.  A published row is claimed by no
\* one again, so each gateway must have handled it by then.
C6_HandledByEveryGateway ==
    \A r \in DOMAIN outbox_events :
        outbox_events[r].published_at # {} => \A g \in Gateways : r \in handled[g]

\* ------------------------------------------------------------------ C7

\* Session state of the connection: its registry entry, its datagram loop,
\* its request loop.
HasSessionState(u) ==
    \/ u \in sessions[GwOf(u)]
    \/ dgLoop[u]
    \/ conn[u].pc \in {"ready", "svc", "post"}

\* A request of the connection has reached the control service.
ServiceDispatched(u) ==
    \/ tx[u].pc # "idle"
    \/ \E e \in audit_log : e.actor_user_id = u
    \/ conn[u].err \in {"NotFound", "PermissionDenied", "InvalidArgument",
                        "ResourceExhausted", "Internal"}

\* C7: a connection has session state only after Hello came first,
\* AuthRequest second and authentication succeeded; a connection whose first
\* envelope is not Hello or whose second is not AuthRequest is closed, has
\* no session state and has dispatched nothing to the control service.
C7_HandshakeGate ==
    \A u \in Users :
        /\ (HasSessionState(u) \/ ServiceDispatched(u)) =>
              /\ conn[u].first = "Hello"
              /\ conn[u].second = "AuthRequest"
              /\ conn[u].authed
        /\ (conn[u].first \notin {None, "Hello"}
            \/ conn[u].second \notin {None, "AuthRequest"}) =>
              /\ conn[u].pc = "closed"
              /\ ~HasSessionState(u)
              /\ ~ServiceDispatched(u)

\* One connection is in its request loop with its session state, another
\* sent Hello and then something else than AuthRequest and is closed.
C7_Witness ==
    \E u, v \in Users :
        /\ conn[u].pc = "ready" /\ u \in sessions[GwOf(u)] /\ dgLoop[u]
        /\ conn[v].pc = "closed" /\ conn[v].first = "Hello" /\ conn[v].second = "Ping"

\* ------------------------------------------------------------------ C8

\* C8: every response written on a control stream carries the request_id of
\* the request it answers (HelloAck, AuthResponse, Pong and the join, leave,
\* create, send-message and moderation responses), and every envelope the
\* outbox dispatcher builds or enqueues carries request_id 0.
C8_CorrelationEcho ==
    /\ [][\A u \in Users :
            lastSent'[u] # lastSent[u] =>
                lastSent'[u].request_id = conn'[u].req.rid]_vars
    /\ [](/\ lastPush.request_id = 0
          /\ \A g \in Gateways : \A u \in Users :
                pushHub[g][u] # {} =>
                    \A i \in 1..Len(Unwrap(pushHub[g][u])) :
                        Unwrap(pushHub[g][u])[i].request_id = 0)

\* A join was answered with the client's request id 2 and the dispatcher
\* has built a presence push.
C8_Witness ==
    /\ lastSent["u1"] = Envelope(2, "JoinChannelResponse", None)
    /\ conn["u1"].req.kind = "JoinChannelRequest"
    /\ lastPush = Envelope(0, "PresenceEvent", None)

\* ------------------------------------------------------------------ C9

RequestErrors ==
    {"Parse", "NotFound", "PermissionDenied", "InvalidArgument", "ResourceExhausted"}

\* C9: when the handling of a request fails (missing or invalid channel id,
\* or a control-service error), the gateway writes a response that carries
\* the error and no payload.
C9_ErrorResponse ==
    \A u \in Users :
        conn[u].err \in RequestErrors =>
            /\ lastSent[u].error = conn[u].err
            /\ lastSent[u].payload = None

\* ----------------------------------------------------------------- C10

\* C10: no datagram handled from a sender is ever in that sender's own
\* receiver queue, whatever the member list of the channel contains.
C10_NoSelfFanout ==
    \A u \in Users :
        send_loops[u] # {} =>
            \A i \in 1..Len(Unwrap(send_loops[u]).queue) :
                Unwrap(send_loops[u]).queue[i].from # u

\* A datagram was forwarded to another member while the member list held
\* the sender, and the sender has a session a queue could be made for.
C10_Witness ==
    \E s, u \in Users :
        /\ s # u
        /\ s \in registry
        /\ s \in provider_list_members(membership, "c1")
        /\ send_loops[u] # {}
        /\ \E i \in 1..Len(Unwrap(send_loops[u]).queue) :
              Unwrap(send_loops[u]).queue[i].from = s

\* ----------------------------------------------------------------- C11

\* A datagram was handled in this step.
Handled == received' = received + 1

\* The cache records the sender as a member of the channel the datagram is
\* routed to.
RoutedToOwnChannel(s, d) ==
    \E c \in Channels :
        /\ membership.user_channel[s] = Some(c)
        /\ d.channel_route = channel_route_hash(c)

\* The call counted the datagram and made exactly one drop, of the given
\* reason, forwarded nothing and left every receiver queue as it was.
DroppedAs(reason) ==
    /\ metrics' = inc(inc(inc(NoMetrics, "rx_packets", 1), "rx_bytes", lastDatagram'.len),
                      reason, 1)
    /\ send_loops' = send_loops

MemberState(c, u) ==
    IF membership.channel_members[c] = {} THEN {}
    ELSE IF u \notin DOMAIN Unwrap(membership.channel_members[c]) THEN {}
    ELSE Some(Unwrap(membership.channel_members[c])[u])

\* The channel the cache indexes the sender to.
ChannelOf(s) == Unwrap(membership.user_channel[s])

\* The receiver's queue before the step, and whether it can take a datagram:
\* an open queue with room, or no queue yet and a session to make one for.
QueueOf(u) == IF send_loops[u] = {} THEN << >> ELSE Unwrap(send_loops[u]).queue
CanTake(u) ==
    IF send_loops[u] = {} THEN u \in registry
    ELSE Unwrap(send_loops[u]).open /\ Len(Unwrap(send_loops[u]).queue) < QueueCap

\* The step appended the sender's datagram, as received, to the receiver's
\* queue.
Delivered(u, s, d) ==
    /\ send_loops'[u] # {}
    /\ Unwrap(send_loops'[u]).queue = Append(QueueOf(u), [from |-> s, len |-> d.len])

AdmittedInWindow(c) ==
    IF talkers[c] = {} THEN {}
    ELSE {u \in VoiceUsers :
            /\ Unwrap(talkers[c]).last_seen[u] # {}
            /\ vnow - Unwrap(Unwrap(talkers[c]).last_seen[u]) <= TalkerWindow}

\* The limit the cache holds for the channel, 4 when it holds none.
CachedLimit(c) ==
    IF membership.channel_max_talkers[c] = {} THEN DefaultMaxTalkers
    ELSE Unwrap(membership.channel_max_talkers[c])

\* C13 as stated: at every instant the senders admitted within the window
\* number at most max_talkers(channel), whatever that value is and however
\* it changes.
C13_TalkerCap ==
    \A c \in Channels : Cardinality(AdmittedInWindow(c)) <= CachedLimit(c)

\* C13, amended: a sender that is not among the senders admitted within the
\* window is admitted only while these number fewer than max_talkers(channel),
\* taken as 1 when it is 0, and is dropped talker_limit otherwise; a sender
\* already among them is admitted again.
C13_TalkerCapOnEntry ==
    [][(/\ Handled
        /\ verdict' \in {"forwarded", "talker_limit"}) =>
          \A s \in Users, c \in Channels :
            (s = lastSender' /\ membership.user_channel[s] = Some(c)) =>
              LET room == Cardinality(AdmittedInWindow(c)) < Max(CachedLimit(c), 1)
              IN  /\ verdict' = "forwarded" <=> (s \in AdmittedInWindow(c) \/ room)
                  /\ verdict' = "talker_limit" => DroppedAs("drop_talker_limit")
                  /\ Cardinality(AdmittedInWindow(c)') <=
                        Max(Cardinality(AdmittedInWindow(c)), Max(CachedLimit(c), 1))
      ]_vars

\* With a limit of one, one sender is within the window and the other was
\* dropped talker_limit.
C13_Witness ==
    /\ verdict = "talker_limit"
    /\ metrics.drop_talker_limit = 1
    /\ CachedLimit("c1") = 1
    /\ Cardinality(AdmittedInWindow("c1")) = 1
    /\ lastSender \notin AdmittedInWindow("c1")

\* ----------------------------------------------------------------- C14

\* C14: over any two instants a second apart, the datagrams of one sender
\* that the rate limiter admitted number at most the configured
\* sender_pps_limit plus one second of that quota, and their bytes at most
\* the configured sender_bps_limit plus one second of that quota.
C14_RateBound ==
    \A u \in Users :
        /\ admitted[u].prev_pkts + admitted[u].pkts <= 2 * cfg.sender_pps_limit
        /\ admitted[u].prev_bytes + admitted[u].bytes <= 2 * cfg.sender_bps_limit

\* ----------------------------------------------------------------- C15

\* A datagram the header validation rejects: wrong version, wrong header
\* length, shorter than a header or longer than max_datagram_bytes.
Malformed(d) ==
    \/ d.version # 1
    \/ d.header_len # 20
    \/ d.len < 20
    \/ d.len > max_datagram_bytes

\* C15: a malformed datagram is enqueued to no receiver, counts one invalid
\* drop and no other drop, and leaves the rate-limit and talker state as they
\* were.
C15_InvalidDropped ==
    [][(Handled /\ Malformed(lastDatagram')) =>
          /\ verdict' = "invalid"
          /\ DroppedAs("drop_invalid")
          /\ rate' = rate
          /\ admitted' = admitted
          /\ talkers' = talkers
      ]_vars

\* A datagram of version 2 was dropped as invalid from a sender the rate
\* limiter already holds state for.
C15_Witness ==
    /\ verdict = "invalid"
    /\ lastDatagram.version = 2
    /\ metrics.drop_invalid = 1
    /\ lastSender \in Users
    /\ rate[lastSender] # {}

\* ----------------------------------------------------------------- C16

\* The members of the channel a datagram of sender s is fanned out to.
Receivers(s) ==
    IF membership.user_channel[s] = {} THEN {}
    ELSE provider_list_members(membership, ChannelOf(s)) \ {s}

\* The receiver's queue is there, open and full.
QueueFull(u) ==
    /\ send_loops[u] # {}
    /\ Unwrap(send_loops[u]).open
    /\ Len(Unwrap(send_loops[u]).queue) = QueueCap

\* C16: in the fanout of one datagram a receiver whose queue is full keeps
\* its queue as it is and counts one send_queue_full drop; every other
\* member that can take the datagram gets it; the counted drops are those
\* of the receivers that could not take it, one each; and the datagram is
\* handled in that one step whatever the queues hold.
C16_FullQueueIsolated ==
    [][(Handled /\ verdict' = "forwarded") =>
          \A s \in Users : s = lastSender' =>
              /\ \A u \in Receivers(s) :
                    /\ QueueFull(u) => send_loops'[u] = send_loops[u]
                    /\ CanTake(u) => Delivered(u, s, lastDatagram')
              /\ metrics'.drop_send_queue_full =
                    Cardinality({u \in Receivers(s) : ~CanTake(u)})
              /\ metrics'.fanout = Cardinality({u \in Receivers(s) : CanTake(u)})
      ]_vars

\* One receiver's queue is full and counted the one drop of the fanout; the
\* other receiver got the datagram.
C16_Witness ==
    /\ verdict = "forwarded"
    /\ metrics.drop_send_queue_full = 1
    /\ metrics.fanout = 1
    /\ \E u, v \in VoiceUsers \ {lastSender} :
          /\ u # v
          /\ QueueFull(u)
          /\ send_loops[v] # {}
          /\ Unwrap(send_loops[v]).open
          /\ Len(Unwrap(send_loops[v]).queue) = 1

\* ----------------------------------------------------------------- C17

\* The receiver's writer ended on a send error: its loop is there and closed.
WriterEnded(u) == send_loops[u] # {} /\ ~Unwrap(send_loops[u]).open

\* C17: when a receiver's writer ends on a send error its queue is dropped,
\* and the next datagram fanned out to that receiver, if it holds a session,
\* makes a fresh open queue holding the datagram.
C17_QueueRecreated ==
    [][/\ \A u \in VoiceUsers :
            (send_loops[u] # {} /\ Unwrap(send_loops[u]).open /\ send_loops'[u] # {}
             /\ ~Unwrap(send_loops'[u]).open) => Unwrap(send_loops'[u]).queue = << >>
       /\ (Handled /\ verdict' = "forwarded") =>
            \A s \in Users : s = lastSender' =>
                \A u \in Receivers(s) :
                    (WriterEnded(u) /\ u \in registry) =>
                        /\ send_loops'[u] # {}
                        /\ Unwrap(send_loops'[u]).open
                        /\ Unwrap(send_loops'[u]).queue = <<[from |-> s, len |-> lastDatagram'.len]>>
      ]_vars

\* ----------------------------------------------------------------- C18

\* C18: a push sent to a user whose queue is full removes the oldest queued
\* push and is queued last; a push sent to a queue with room is queued last
\* behind the ones already there.
C18_DropOldestWhenFull ==
    [][\A g \in Gateways, u \in Users :
          (handled'[g] # handled[g] /\ pushHub[g][u] # {}) =>
              LET q == Unwrap(pushHub[g][u])
              IN  pushHub'[g][u] =
                      IF Len(q) = PushQueueCap THEN Some(Append(Tail(q), lastPush'))
                      ELSE Some(Append(q, lastPush'))
      ]_vars

\* ----------------------------------------------------------------- C19

\* C19: a request of an admin is never refused by the permission check,
\* whatever overrides and role entries the tables hold.
C19_AdminAllowed ==
    \A u \in Users : IsAdmin(u) => conn[u].err # "PermissionDenied"

\* ----------------------------------------------------------------- C20

\* In this step the service decides the permission of u's request to join c1:
\* creating a channel is granted to every user, so a refusal is that of a
\* join, and so are a NotFound and a transaction opened for a join.
JoinDecided(u) ==
    /\ conn[u].pc = "ready"
    /\ nextOp' = nextOp + 1
    /\ \/ conn'[u].err \in {"PermissionDenied", "NotFound"}
       \/ conn'[u].pc = "svc" /\ tx'[u].kind = "JoinChannelRequest"
JoinAllowed(u) == conn'[u].err # "PermissionDenied"

HasOverride(u, e) == <<"c1", u, "JoinChannel", e>> \in acl.overrides
HasRole(u, e) == <<u, "JoinChannel", e>> \in acl.roles

\* C20 as stated: for a non-admin a matching override decides, deny before
\* grant; the role entries decide, deny before grant, only when no override
\* matches; without a grant the request is refused.
C20_OverridesThenRoles ==
    [][\A u \in Users : (JoinDecided(u) /\ ~IsAdmin(u)) =>
          (JoinAllowed(u) <=>
              IF HasOverride(u, "deny") THEN FALSE
              ELSE IF HasOverride(u, "grant") THEN TRUE
              ELSE IF HasRole(u, "deny") THEN FALSE
              ELSE HasRole(u, "grant"))
      ]_vars

\* C20, amended: for a non-admin a deny decides before any grant: the request
\* is allowed exactly when no override and no role entry denies it and an
\* override or a role entry grants it.
C20_DenyBeforeGrant ==
    [][\A u \in Users : (JoinDecided(u) /\ ~IsAdmin(u)) =>
          (JoinAllowed(u) <=>
              /\ ~HasOverride(u, "deny")
              /\ ~HasRole(u, "deny")
              /\ (HasOverride(u, "grant") \/ HasRole(u, "grant")))
      ]_vars

\* A non-admin holding a grant override on c1 and a deny role entry was
\* refused the join.
C20_Witness ==
    /\ conn["u2"].err = "PermissionDenied"
    /\ ~IsAdmin("u2")
    /\ HasOverride("u2", "grant")
    /\ ~HasOverride("u2", "deny")
    /\ HasRole("u2", "deny")

\* ----------------------------------------------------------------- C21

\* In this step the moderation operation of a caller that holds the mute
\* permission on the row's channel commits its write of row k.
ModerationCommits(k) ==
    \E u \in Users :
        /\ tx[u].pc = "commit"
        /\ tx'[u].pc = "done"
        /\ tx[u].kind = "ModerationActionRequest"
        /\ <<tx[u].ch, tx[u].target>> = k
        /\ require(acl, u, k[1], k[2], "MuteVoice")

\* C21: the muted and deafened flags of a member row that exists before and
\* after a step change only in the commit of a moderation operation whose
\* caller passed the mute permission check.
C21_MuteOnlyByModerator ==
    [][\A k \in DOMAIN channel_members \cap DOMAIN channel_members' :
          (\/ channel_members'[k].muted # channel_members[k].muted
           \/ channel_members'[k].deafened # channel_members[k].deafened)
              => ModerationCommits(k)
      ]_vars

\* ----------------------------------------------------------------- C22

\* A well-formed join of channel ch.
JoinOf(ch) == Req("JoinChannelRequest", ch, None, None, TRUE)

\* The channel has a member limit and holds at least that many member rows.
Full(ch) ==
    /\ get_channel(ch) # {}
    /\ Unwrap(get_channel(ch)).max_members # {}
    /\ count_members(ch) >= Unwrap(Unwrap(get_channel(ch)).max_members)

\* In this step the join of u commits on a channel in which u has a row.
RejoinCommits(u) ==
    /\ tx[u].pc = "commit"
    /\ tx'[u].pc = "done"
    /\ tx[u].kind = "JoinChannelRequest"
    /\ <<tx[u].ch, u>> \in DOMAIN channel_members

\* The commit of a second join leaves one row for (channel, user), with the
\* display name of this join and the joined_at of the first.
RowRefreshed(u) ==
    LET k == <<tx[u].ch, u>>
    IN  /\ DOMAIN channel_members' = DOMAIN channel_members
        /\ channel_members'[k].display_name = tx[u].m.display_name
        /\ channel_members'[k].joined_at = channel_members[k].joined_at
        /\ \A x \in DOMAIN channel_members \ {k} : channel_members'[x] = channel_members[x]

Returns(u, err) == conn[u].err # err /\ conn'[u].err = err

\* C23: a join of a channel that holds at least max_members member rows, by
\* a caller allowed to join, is answered ResourceExhausted; a call that
\* returns ResourceExhausted found the channel full and leaves the member
\* rows, the audit log, the outbox and every other table as they were; and
\* no join opens a transaction on a full channel.
C23_FullChannelRefused ==
    [][\A u \in Users :
          /\ (Full("c1") /\ require(acl, u, "c1", None, "JoinChannel"))
                => Precheck(u, JoinOf("c1")) = "ResourceExhausted"
          /\ Returns(u, "ResourceExhausted") =>
                /\ Full("c1")
                /\ UNCHANGED <<storeVars, tx>>
          /\ (tx[u].pc = "idle" /\ tx'[u].pc = "change" /\ tx'[u].kind = "JoinChannelRequest")
                => ~Full(tx'[u].ch)
      ]_vars

\* A join of the full channel c1 was answered ResourceExhausted by a user
\* who is not a member of it.
C23_Witness ==
    \E u \in Users :
        /\ conn[u].err = "ResourceExhausted"
        /\ Full("c1")
        /\ get_member("c1", u) = {}
        /\ audit_log = {}
        /\ outbox_events = << >>

\* ----------------------------------------------------------------- C24

\* A well-formed message for channel ch.
SendOf(ch) == Req("SendMessageRequest", ch, None, None, TRUE)

\* C24: send_message by a user who holds the SendMessage permission and is
\* not a member of the channel returns PermissionDenied; a call that is
\* refused writes no chat message, no audit entry and no outbox event.
C24_NonMemberSendDenied ==
    [][\A u \in Users :
          /\ (get_member("c1", u) = {} /\ require(acl, u, "c1", None, "SendMessage"))
                => Precheck(u, SendOf("c1")) = "PermissionDenied"
          /\ (Returns(u, "PermissionDenied") \/ Returns(u, "NotFound")) =>
                UNCHANGED <<chat_messages, audit_log, outbox_events, tx>>
      ]_vars

\* ----------------------------------------------------------------- C25

\* The connection of u has ended: handle_conn returned.
Ended(u) == conn[u].pc = "closed"

\* C25: once a connection has ended, the session registry of its gateway
\* holds no datagram handle and the push hub no queue for its user.
C25_RegistryClearedOnEnd ==
    \A u \in Users :
        Ended(u) => /\ u \notin sessions[GwOf(u)]
                    /\ pushHub[GwOf(u)][u] = {}

\* ----------------------------------------------------------------- C26

\* The push of row r is enqueued for uid for the first time in this step.
FirstPush(r, uid) == <<r, uid>> \in enqueued' /\ <<r, uid>> \notin enqueued

\* C26: of two outbox rows of one channel, the one committed earlier is
\* enqueued for a recipient before the later one: when the earlier row's
\* push first enters a recipient's queue, the later row's push has not been
\* enqueued for that recipient.
C26_ChannelOrder ==
    [][\A uid \in Users : \A e1, e2 \in DOMAIN outbox_events :
          (/\ Before(e1, e2)
           /\ outbox_events[e1].channel_id = outbox_events[e2].channel_id
           /\ FirstPush(e1, uid))
              => <<e2, uid>> \notin enqueued]_vars

\* ----------------------------------------------------------------- C27

\* AuthProvider::authenticate returned Err for the connection's AuthRequest.
AuthFailed(u) == conn[u].err = "auth failed"

\* C27: a connection whose authentication failed was sent an envelope that
\* carries an error code before it was closed, never entered the request
\* loop and has no session registered.
C27_AuthFailureAnswered ==
    \A u \in Users :
        AuthFailed(u) =>
            /\ lastSent[u].error # None
            /\ conn[u].pc = "closed"
            /\ u \notin sessions[GwOf(u)]
            /\ ~dgLoop[u]

\* ----------------------------------------------------------------- C28

\* The request loop has read an envelope whose payload is none of Ping and
\* the five requests, and goes on.
UnknownRead(u) ==
    /\ conn[u].pc = "ready"
    /\ conn'[u].pc = "ready"
    /\ conn'[u].req # conn[u].req
    /\ conn'[u].req.kind \notin RequestKinds \cup {"Ping"}

\* C28: an envelope of the request loop whose payload is not one of the six
\* handled kinds is answered, in the step that reads it, with a response
\* carrying InvalidArgument and the envelope's request_id, and nothing else
\* changes.
C28_UnknownPayloadRefused ==
    [][\A u \in Users :
          UnknownRead(u) =>
              /\ lastSent'[u] = Envelope(conn'[u].req.rid, None, "InvalidArgument")
              /\ UNCHANGED <<storeVars, tx, sessions, dgLoop, cacheVars, pushHub>>]_vars

\* ----------------------------------------------------------------- C29

\* The rows translate_record has no arm for.
Untranslatable(r) == outbox_events[r].topic = "channel.created"

\* Dispatcher g handles row r in this step.
Handles(g, r) ==
    /\ disp[g].pc = "handle"
    /\ r \in disp[g].batch
    /\ disp'[g].batch = disp[g].batch \ {r}

\* C29: a claimed row whose translation fails is not pushed and not
\* acknowledged, the dispatcher goes on with the rest of its batch, and
\* the row is claimable again as soon as its lease has run out.
C29_TranslationFailureRetried ==
    /\ [](\A r \in DOMAIN outbox_events :
            Untranslatable(r) =>
                /\ outbox_events[r].published_at = {}
                /\ \A uid \in Users : <<r, uid>> \notin enqueued
                /\ \A g \in Gateways : r \notin handled[g]
                /\ (/\ outbox_events[r].claimed_at # {}
                    /\ Unwrap(outbox_events[r].claimed_at) + ClaimTtl < now)
                        => Claimable(outbox_events[r], now))
    /\ [][\A g \in Gateways : \A r \in DOMAIN outbox_events :
            (Untranslatable(r) /\ Handles(g, r)) =>
                /\ UNCHANGED <<outbox_events, pushHub, lastPush, enqueued, cacheVars>>
                /\ disp'[g].pc = IF disp'[g].batch = {} THEN "poll" ELSE "handle"]_vars

\* The dispatcher of g1 claimed the channel.created row and a join row in
\* one batch at time 0, failed on the first and handled the second; one
\* second later the first row is unpublished and claimable again.
C29_Witness ==
    \E r1, r2 \in DOMAIN outbox_events :
        /\ Untranslatable(r1)
        /\ outbox_events[r1].claimed_at = Some(0)
        /\ outbox_events[r1].claim_token = "T1"
        /\ outbox_events[r2].claim_token = "T1"
        /\ r2 \in handled["g1"]
        /\ \A g \in Gateways : r1 \notin disp[g].batch
        /\ now = 1
        /\ Claimable(outbox_events[r1], now)

\* ----------------------------------------------------------------- C30

\* Dispatcher g handles, in this step, a translatable row of a channel its
\* membership cache has no entry for.
CacheMiss(g, r) ==
    /\ Handles(g, r)
    /\ translate_record(outbox_events[r]) # {}
    /\ members_of(cacheChan[g], outbox_events[r].channel_id) = {}

\* C30: when the cache has no entry for the row's channel, the recipients
\* are the channel's members as list_members returns them: the push is
\* enqueued for each of them that has a queue with room on the gateway, and
\* the row is not acknowledged while such members exist and none was
\* pushed to.
C30_CacheMissReadsMembers ==
    [][\A g \in Gateways : \A r \in DOMAIN outbox_events :
          CacheMiss(g, r) =>
              LET members == {m.user_id :
                                m \in list_members(channel_members,
                                                   outbox_events[r].channel_id)}
              IN  /\ \A uid \in Accepting(pushHub[g], members) : <<r, uid>> \in enqueued'
                  /\ (members # {} /\ outbox_events'[r].published_at # {})
                        => pushHub'[g] = SendAll(pushHub[g], members,
                                                 Unwrap(translate_record(outbox_events[r])).push)
      ]_vars

\* ----------------------------------------------------------------- C31

\* The control stream is open and the request loop has not begun.
PreReady(u) == conn[u].pc \in {"hello", "auth", "authed"}

\* C31: a connection that has opened its control stream does not stay
\* before READY forever: it completes the handshake or the gateway closes
\* it.
C31_HandshakeEnds ==
    \A u \in Users : PreReady(u) ~> ~PreReady(u)

\* ----------------------------------------------------------------- C32

\* The circular distance of two timestamps.
CircDist(a, b) == Min((a + TsWrap - b) % TsWrap, (b + TsWrap - a) % TsWrap)

\* C32: a datagram with a valid header is dropped by the timestamp check
\* exactly when the circular distance between the forwarder's clock and its
\* ts_ms exceeds max_ts_skew_ms.
C32_TimestampWindow ==
    [][(Handled /\ ~Malformed(lastDatagram')) =>
          /\ (CircDist(unix_ms(vnow), lastDatagram'.ts_ms) > max_ts_skew_ms)
                => (verdict' = "invalid" /\ DroppedAs("drop_invalid"))
          /\ (CircDist(unix_ms(vnow), lastDatagram'.ts_ms) <= max_ts_skew_ms)
                => verdict' # "invalid"
      ]_vars

\* ----------------------------------------------------------------- C33

\* A flags byte with a bit set other than bit 0 (voice active) and bit 1
\* (FEC).
ReservedFlags(d) == d.flags \div 4 # 0

\* C33: a datagram with a reserved flag bit set is dropped as invalid, with
\* one invalid tick, and enqueued to no receiver.
C33_ReservedFlagsDropped ==
    [][(Handled /\ ReservedFlags(lastDatagram')) =>
          /\ verdict' = "invalid"
          /\ DroppedAs("drop_invalid")
      ]_vars

\* ----------------------------------------------------------------- C34

\* C34: the committed member rows of a channel with a member limit never
\* outnumber the limit.
C34_MemberLimitKept ==
    \A ch \in DOMAIN channels :
        channels[ch].max_members # {} =>
            count_members(ch) <= Unwrap(channels[ch].max_members)

\* ----------------------------------------------------------------- C35

\* The ids an outbox row can have.
RowIds == (1..MaxOps) \X {1, 2}

Committed(r) == r \in DOMAIN outbox_events
Published(r) == r \in DOMAIN outbox_events /\ outbox_events[r].published_at # {}

DispatcherEnded(g) == disp[g].pc = "dead"

\* C36: a claim step that fails leaves the dispatcher in its polling loop:
\* no dispatcher ever ends, and a dispatcher whose claim did not go through
\* is polling again.
C36_ClaimFailureSurvived ==
    /\ [](\A g \in Gateways : ~DispatcherEnded(g))
    /\ [][\A g \in Gateways :
            (disp[g].pc \in {"poll", "claimed"} /\ disp'[g].pc \notin {"claimed", "handle"})
                => disp'[g].pc = "poll"]_vars

\* ----------------------------------------------------------------- C37

\* C37: a receiver never has more than one writer task.
C37_SingleWriter ==
    \A r \in VoiceUsers : slowPath.tasks[r] <= 1

\* ----------------------------------------------------------------- C38

\* The channel the user index resolves u to, and the channels whose member
\* list holds u.
IndexedChannel(u) == membership.user_channel[u]
ListedChannels(u) ==
    {c \in Channels : /\ membership.channel_members[c] # {}
                      /\ u \in DOMAIN Unwrap(membership.channel_members[c])}

\* C38: in the membership cache the user index and the member lists agree:
\* a user resolves to channel c exactly when c's member list holds the
\* user, so no user is in two member lists.
C38_CacheAgrees ==
    \A u \in Users :
        /\ IndexedChannel(u) = ListedChannels(u)
        /\ Cardinality(ListedChannels(u)) <= 1

\* ----------------------------------------------------------------- C39

\* ControlDispatcher::create_channel on the client: what it returns for a
\* response envelope.
client_create_channel(resp) ==
    IF resp.error # None THEN "Err"
    ELSE IF resp.payload = "CreateChannelResponse" THEN "Ok"
    ELSE "Err"

\* The gateway has written the response of u's CreateChannelRequest.
CreateAnswered(u) ==
    /\ conn[u].pc = "ready"
    /\ conn[u].req.kind = "CreateChannelRequest"

\* C39: the response the gateway writes for a successful create is one the
\* client's create_channel returns Ok for.
C39_CreateAcceptedByClient ==
    \A u \in Users :
        CreateAnswered(u) => client_create_channel(lastSent[u]) = "Ok"

\* ----------------------------------------------------------------- C40

\* The sender's rate-limit state as allow_rate finds it: the stored one, or
\* the one it creates.
RateStateOf(u) == IF rate[u] = {} THEN NewRateState(vnow) ELSE Unwrap(rate[u])

\* The sender has no rate-limit state, or one created at this instant.
FreshSender(u) == RateStateOf(u) = NewRateState(vnow)

\* The datagram of this step reached allow_rate.
ReachedRateGate == Handled /\ verdict' # "invalid"

\* A sender without earlier state is dropped rate_limited, with both
\* buckets empty afterwards.
FreshSenderLimited ==
    (ReachedRateGate /\ FreshSender(lastSender'))
        => /\ verdict' = "rate_limited"
           /\ DroppedAs("drop_rate_limited")
           /\ rate'[lastSender'] = Some(NewRateState(vnow))

\* A rejected datagram leaves in the buckets what refill put there.
RejectedConsumesNothing ==
    (ReachedRateGate /\ verdict' = "rate_limited")
        => rate'[lastSender'] = Some(refill(RateStateOf(lastSender'), vnow))

\* The buckets hold at most one second of the configured quota.
BucketsWithinQuota ==
    \A u \in VoiceUsers :
        rate[u] # {} => /\ Unwrap(rate[u]).tokens_pkts <= cfg.sender_pps_limit
                        /\ Unwrap(rate[u]).tokens_bytes <= cfg.sender_bps_limit

\* C40: a sender with no earlier rate-limit state starts with empty buckets
\* and is dropped rate_limited until time has passed since its state was
\* created; the buckets never hold more than one second of quota; a
\* rejected datagram takes tokens from neither bucket.
C40_RateBuckets ==
    /\ [](BucketsWithinQuota)
    /\ [][FreshSenderLimited /\ RejectedConsumesNothing]_vars

\* What holds of the start of a sender and of a rejection, whatever the
\* configuration.
RateStartAndRejection == [][FreshSenderLimited /\ RejectedConsumesNothing]_vars

====
